---- MODULE Spec2Model ----
(***************************************************************************)
(* Verification model of PunchAFriend's networking core: the client's tick *)
(* reconciliation (handle_server_output), the server's handshake and UDP   *)
(* listener (setup_remote_client_handler, setup_client_listener,           *)
(* recv_tick) and the server's round / intermission state machine (frame). *)
(*                                                                         *)
(* Five specifications share the variables:                                *)
(*   SpecTick  the client side of the tick channel,                        *)
(*   SpecNet   the server's accept loop, UDP listener and recv_tick,       *)
(*   SpecVote  the server's frame system with joins, exits and votes,      *)
(*   SpecCast  the broadcast tasks running next to the server's systems,   *)
(*   SpecJoin  the accept loop next to the frame system and the broadcasts.*)
(***************************************************************************)
EXTENDS Integers, Sequences, FiniteSets, TLC

(***************************************************************************)
(* Bounds                                                                  *)
(***************************************************************************)
NumPawns == 2        \* uuids of pawns seen by the client
MaxTick == 2         \* cap of the server's tick counter
MaxTickChan == 2     \* cap of server_tick_receiver
MaxRemoteChan == 1   \* cap of remote_receiver
NumClients == 2      \* clients that connect to the server
NumIdleClients == 1  \* connected clients that stay and whose socket works
MaxUdpChan == 2      \* cap of client_udp_receiver
MaxTcpChan == 2      \* cap of client_tcp_receiver
MaxPendingTasks == 1 \* spawned tasks not yet run when a system spawns more
MaxBroadcasts == 2   \* broadcast tasks the runtime starts
MaxVotes == 2        \* cap of intermission_total_votes plus queued votes
NumWriters == 3      \* tasks that write to one client's control channel
FrameChunks == 3     \* pieces the socket may split one frame's write into
MaxShortPayload == 3 \* payloads up to this length are enumerated in full
LongPayload == 256   \* length from which the header's second byte is used
MaxSent == 2         \* control messages the server sends to the client
MaxOutbound == 1     \* requests the client's UI queues for the server
NumStatPlayers == 2  \* players that join and get a statistics entry
MaxDeaths == 2       \* cap of one player's deaths counter
MaxStatMsgs == 2     \* PlayersStatisticsChange messages in flight
MaxAttempts == 3     \* connection attempts the user starts
MaxTokens == 3       \* cancellation tokens the client creates
MaxDatagrams == 3     \* datagrams handed to the UDP socket
NumIps == 2           \* hosts the clients run on
NumPorts == 2         \* port numbers a client socket can get
MaxTagged == 1        \* cap of the tagged request channel
MaxReplyTasks == 1    \* reply tasks spawned and not yet run
MaxInputChan == 2     \* cap of the input channel
MaxBatches == 3       \* batches the UI queues in one run
MaxVoteChan == 2      \* cap of remote_server_sender (2000 in the code)

Uuids == 1..NumPawns
Positions == {"p1", "p2"}          \* Transform values
Directions == {"Left", "Right"}  \* Pawn attribute carried in a tick
DefaultVelocity == "zero"
Velocities == {DefaultVelocity, "fast"}

(***************************************************************************)
(* State                                                                   *)
(***************************************************************************)
VARIABLES
    \* ---- client (src/src/bin/client, src/src/networking/client.rs)
    tick_count,            \* server ApplicationCtx.tick_count
    udpToClient,           \* pawn ticks the server handed to the UDP socket
    server_tick_receiver,  \* ClientConnection.server_tick_receiver
    remote_receiver,       \* ClientConnection.remote_receiver
    players,               \* the client's shadow entities, by pawn uuid
    ui_layer,              \* client ApplicationCtx.ui_layer
    has_voted,             \* client ApplicationCtx.has_voted
    delivered,             \* history: ticks the listener delivered, per uuid
    disconnected,          \* history: uuids whose PlayerDisconnect was handled
    lastProc,              \* history: the last tick handled per uuid
    \* ---- server (src/src/networking/server.rs, src/src/bin/server)
    registry,              \* connected_client_tcp_handles: endpoint -> uuid
    pawns,                 \* server Pawn entities: uuid -> direction
    stats,                 \* connected_clients_stats (uuids with an entry)
    client_udp_receiver,   \* ServerInstance.client_udp_receiver
    client_tcp_receiver,   \* ServerInstance.client_tcp_receiver
    tasks,                 \* spawned background tasks that have not run yet
    panicked,              \* a server system hit unwrap() on None / Err
    next_uuid,             \* the next value Uuid::new_v4() hands out
    hs,                    \* position of the accept loop in the handshake
    cli,                   \* each client's connect_to_address
    link,                  \* each client's TCP stream during the handshake
    hsLog,                 \* history: what the handshake did per client
    listenerLog,           \* history: the last datagram the listener took
    \* ---- server round / intermission machine (src/src/bin/server)
    game_state,            \* ServerInstance.game_state
    game_round_timer,      \* server ApplicationCtx.game_round_timer
    intermission_timer,    \* server ApplicationCtx.intermission_timer
    intermission_total_votes,  \* server ApplicationCtx.intermission_total_votes
    loaded_map,            \* the map whose objects are spawned in the world
    ballots,               \* history: votes tallied into the current data
    frameLog,              \* history: what the frame that just ran did
    \* ---- server broadcast tasks (send_request_to_all_clients and the like)
    casts,                 \* broadcast tasks that are running
    broken,                \* endpoints whose control-channel writes fail
    last_state,            \* last game state written to each control channel
    castLog,               \* history: the broadcasts that have ended
    stalled,               \* the system that waits for a registry lock
    removed,               \* history: sessions removed from the registry
    notices,               \* history: uuids with a PlayerDisconnect broadcast
    \* ---- one client's control-channel write half (Arc<Mutex<OwnedWriteHalf>>)
    writer_lock,           \* the task that holds the write half's mutex
    wire_stream,           \* the bytes written to the socket, in order
    writers,               \* position of each task that writes to the client
    \* ---- one length-prefixed frame on a stream (write_to_buf_with_len)
    frm_payload,           \* the slice handed to write_to_buf_with_len
    frm_buf,               \* the bytes the call wrote to the stream
    frm_pc,                \* how far the writer and the reader have come
    frm_len,               \* the length the reader took from the header
    frm_read,              \* the buffer the reader filled
    \* ---- the client's control handler (setup_server_handler)
    rx_wire,               \* bytes the server wrote that are still in flight
    rx_sock,               \* bytes that arrived at the client's socket, unread
    rx,                    \* the handler's position and the buffers it fills
    rx_outbound,           \* requests waiting in remote_client_receiver
    rx_sent,               \* history: payloads the server sent, in order
    rx_consumed,           \* history: bytes the handler took off the socket
    rx_decoded,            \* requests handed to remote_server_sender
    \* ---- reader and listener tasks
    readers,               \* the server's control reader of each client
    tick_listener,         \* the client's setup_server_game_listener task
    \* ---- statistics (BTreeSet<ClientStatistics>)
    server_stats_set,      \* ServerInstance.connected_clients_stats, in order
    client_stats_set,      \* ClientConnection.connected_clients_stats, in order
    stats_channel,         \* PlayersStatisticsChange requests sent to the client
    stats_joined,          \* history: uuids the accept loop gave an entry
    stats_seen,            \* history: uuids in requests the client applied
    \* ---- the client's connection attempts (client ApplicationCtx)
    cancellation_token,    \* ApplicationCtx.cancellation_token
    cancelled_tokens,      \* the tokens cancel() has been called on
    connect_attempts,      \* connecting tasks that have not finished
    attempts_started,      \* number of connecting tasks spawned so far
    connection_receiver,   \* ApplicationCtx.connection_receiver
    client_connection,     \* ApplicationCtx.client_connection
    \* ---- background tasks and the tokens they were spawned with
    token_cancelled,       \* per side: cancel() has been called on the token
    bg,                    \* where each background task is
    \* ---- what the senders hand to the UDP socket
    udp_last,              \* the last datagram handed to send / send_to
    udp_sent,              \* number of datagrams handed over so far
    \* ---- control requests and the replies addressed to their sender
    peers,                 \* per client: TCP peer address and UDP game port
    handles,               \* connected_client_tcp_handles, by SocketAddr
    tagged_requests,       \* client_tcp_receiver: (request, socket_addr)
    reply_tasks,           \* spawned reply tasks that have not run
    reply_last,            \* history: the last reply task that ran
    \* ---- the client's input sender (setup_server_sender)
    input_channel,         \* batches queued on server_input_sender
    input_closed,          \* the channel's Sender has been dropped
    sender_token,          \* the task's cancellation token is cancelled
    sender_uuid,           \* client_uuid the task was spawned with
    sender,                \* where the task is, and the batch it holds
    socket_sent,           \* datagrams the task has sent, in order
    batches_queued,        \* number of batches the UI has queued so far
    \* ---- the client's outgoing control requests
    remote_server_sender   \* requests queued for the control handler

clientVars == <<tick_count, udpToClient, server_tick_receiver, remote_receiver,
                players, ui_layer, has_voted, delivered, disconnected, lastProc>>

netVars == <<registry, pawns, stats, client_udp_receiver, client_tcp_receiver,
             tasks, panicked, next_uuid, hs, cli, link, hsLog,
             listenerLog>>

voteVars == <<game_state, game_round_timer, intermission_timer,
              intermission_total_votes, loaded_map, ballots, frameLog>>

castVars == <<casts, broken, last_state, castLog, stalled, removed, notices>>

wireVars == <<writer_lock, wire_stream, writers>>

baseVars == <<clientVars, netVars, voteVars, castVars>>

frmVars == <<frm_payload, frm_buf, frm_pc, frm_len, frm_read>>

rxVars == <<rx_wire, rx_sock, rx, rx_outbound, rx_sent, rx_consumed,
            rx_decoded>>

lsVars == <<readers, tick_listener>>

stVars == <<server_stats_set, client_stats_set, stats_channel, stats_joined,
            stats_seen>>

cnVars == <<cancellation_token, cancelled_tokens, connect_attempts,
            attempts_started, connection_receiver, client_connection>>

bgVars == <<token_cancelled, bg>>

dgVars == <<udp_last, udp_sent>>

rpVars == <<peers, handles, tagged_requests, reply_tasks, reply_last>>

sdVars == <<input_channel, input_closed, sender_token, sender_uuid, sender,
            socket_sent, batches_queued>>

vtVars == <<remote_server_sender>>

ioVars == <<wireVars, frmVars, rxVars, lsVars, stVars, cnVars, bgVars,
            dgVars, rpVars, sdVars, vtVars>>

notWire == <<frmVars, rxVars, lsVars, stVars, cnVars, bgVars,
    dgVars, rpVars, sdVars, vtVars>>
notFrm == <<wireVars, rxVars, lsVars, stVars, cnVars, bgVars,
    dgVars, rpVars, sdVars, vtVars>>
notRx == <<wireVars, frmVars, lsVars, stVars, cnVars, bgVars,
    dgVars, rpVars, sdVars, vtVars>>
notLs == <<wireVars, frmVars, rxVars, stVars, cnVars, bgVars,
    dgVars, rpVars, sdVars, vtVars>>
notSt == <<wireVars, frmVars, rxVars, lsVars, cnVars, bgVars,
    dgVars, rpVars, sdVars, vtVars>>
notCn == <<wireVars, frmVars, rxVars, lsVars, stVars, bgVars,
    dgVars, rpVars, sdVars, vtVars>>
notBg == <<wireVars, frmVars, rxVars, lsVars, stVars, cnVars,
    dgVars, rpVars, sdVars, vtVars>>
notDg == <<wireVars, frmVars, rxVars, lsVars, stVars, cnVars, bgVars,
    rpVars, sdVars, vtVars>>
notRp == <<wireVars, frmVars, rxVars, lsVars, stVars, cnVars, bgVars,
    dgVars, sdVars, vtVars>>
notSd == <<wireVars, frmVars, rxVars, lsVars, stVars, cnVars, bgVars,
    dgVars, rpVars, vtVars>>
notVt == <<wireVars, frmVars, rxVars, lsVars, stVars, cnVars, bgVars,
    dgVars, rpVars, sdVars>>

vars == <<baseVars, ioVars>>

(***************************************************************************)
(* Client: shadow entities and tick reconciliation                         *)
(***************************************************************************)
\* No entity with this uuid is spawned on the client.
NoEntity == [present |-> FALSE, position |-> "p1", velocity |-> DefaultVelocity,
             direction |-> "Right", tick |-> 0]

\* PawnUpdate::new(position, velocity, player, tick_count)
PawnUpdate(id, position, velocity, direction, tc) ==
    [id |-> id, position |-> position, velocity |-> velocity,
     direction |-> direction, tick_count |-> tc]

NoProc == [kind |-> "none", tick |-> PawnUpdate(1, "p1", DefaultVelocity, "Right", 0),
           before |-> NoEntity]

\* Mutant of IsNewer: any tick count other than the stored one is accepted.
IsNewerAnyOther(entity, pawn_update) == entity.tick # pawn_update.tick_count

\* UniqueLastTickCount::get_inner() < pawn_update.tick_count
IsNewer(entity, pawn_update) == entity.tick < pawn_update.tick_count

\* The closure of players.iter_mut().any(..) for the entity whose id matches.
UpdateEntity(entity, pawn_update) ==
    IF IsNewer(entity, pawn_update)
    THEN [present |-> TRUE,
          position |-> pawn_update.position,
          velocity |-> pawn_update.velocity,
          direction |-> pawn_update.direction,
          tick |-> pawn_update.tick_count]
    ELSE entity

\* commands.spawn(..): the shadow entity created for an unknown uuid.
SpawnEntity(pawn_update) ==
    [present |-> TRUE,
     position |-> pawn_update.position,
     velocity |-> DefaultVelocity,
     direction |-> pawn_update.direction,
     tick |-> 0]

\* The while-let loop over server_tick_receiver.  Entities found are updated
\* in place; an unknown uuid queues a spawn and breaks out of the loop, so
\* the rest of the channel waits for the next frame.
RECURSIVE DrainTicks(_, _, _)
DrainTicks(ps, chan, log) ==
    IF chan = <<>>
    THEN [players |-> ps, chan |-> chan, log |-> log, spawn |-> {}]
    ELSE LET t == Head(chan) IN
         IF ps[t.id].present
         THEN DrainTicks([ps EXCEPT ![t.id] = UpdateEntity(ps[t.id], t)],
                         Tail(chan),
                         [log EXCEPT ![t.id] =
                             [kind |-> "update", tick |-> t, before |-> ps[t.id]]])
         ELSE [players |-> ps, chan |-> Tail(chan),
               log |-> [log EXCEPT ![t.id] =
                           [kind |-> "spawn", tick |-> t, before |-> ps[t.id]]],
               spawn |-> {t}]

\* Server requests the client handles in handle_server_output.
PlayerDisconnect(u) == [type |-> "PlayerDisconnect", uuid |-> u, state |-> "none"]
ServerGameStateControl(s) == [type |-> "ServerGameStateControl", uuid |-> 0, state |-> s]
RemoteRequests ==
    {PlayerDisconnect(u) : u \in Uuids}
        \cup {ServerGameStateControl(s) : s \in {"Intermission", "OngoingGame"}}

\* Entities after the frame's deferred commands (spawn, despawn) are applied.
ApplyCommands(ps, spawn, despawn) ==
    [u \in Uuids |->
        IF u \in despawn THEN NoEntity
        ELSE IF \E t \in spawn : t.id = u
             THEN SpawnEntity(CHOOSE t \in spawn : t.id = u)
             ELSE ps[u]]

\* handle_server_output with a client_connection: drain the tick channel,
\* then handle at most one request of remote_receiver.
HandleServerOutput ==
    LET d == DrainTicks(players, server_tick_receiver, lastProc)
        hasReq == remote_receiver # <<>>
        req == Head(remote_receiver)
        despawn == IF hasReq /\ req.type = "PlayerDisconnect"
                      /\ d.players[req.uuid].present
                   THEN {req.uuid} ELSE {}
    IN  /\ server_tick_receiver # <<>> \/ remote_receiver # <<>>
        /\ server_tick_receiver' = d.chan
        /\ lastProc' = d.log
        /\ players' = ApplyCommands(d.players, d.spawn, despawn)
        /\ remote_receiver' = IF hasReq THEN Tail(remote_receiver) ELSE remote_receiver
        /\ disconnected' = IF hasReq /\ req.type = "PlayerDisconnect"
                           THEN disconnected \cup {req.uuid} ELSE disconnected
        /\ ui_layer' = IF hasReq /\ req.type = "ServerGameStateControl"
                       THEN (IF req.state = "Intermission" THEN "Intermission" ELSE "Game")
                       ELSE ui_layer
        /\ has_voted' = IF hasReq /\ req.type = "ServerGameStateControl"
                           /\ req.state = "Intermission"
                        THEN FALSE ELSE has_voted
        /\ UNCHANGED <<ioVars, tick_count, udpToClient, delivered, netVars, voteVars, castVars>>

\* setup_server_game_listener: one datagram is received, decoded and pushed
\* into server_tick_receiver.  UDP may deliver in any order and more than once.
ClientTickListener(t) ==
    /\ t \in udpToClient
    /\ Len(server_tick_receiver) < MaxTickChan
    /\ server_tick_receiver' = Append(server_tick_receiver, t)
    /\ delivered' = [delivered EXCEPT ![t.id] = @ \cup {t}]
    /\ UNCHANGED <<ioVars, tick_count, udpToClient, remote_receiver, players, ui_layer,
                   has_voted, disconnected, lastProc, netVars, voteVars, castVars>>

\* setup_server_handler: one framed server request is read and pushed into
\* remote_receiver.
ClientControlReader(req) ==
    /\ req \in RemoteRequests
    /\ Len(remote_receiver) < MaxRemoteChan
    /\ remote_receiver' = Append(remote_receiver, req)
    /\ UNCHANGED <<ioVars, tick_count, udpToClient, server_tick_receiver, players, ui_layer,
                   has_voted, delivered, disconnected, lastProc, netVars, voteVars, castVars>>

\* Server send_tick: the counter is incremented and every pawn whose
\* Transform changed is sent with the new counter value.
SendTick(moved, payload) ==
    /\ tick_count < MaxTick      \* far below the u64 wrap of wrapping_add
    /\ tick_count' = tick_count + 1
    /\ udpToClient' = udpToClient \cup
          {PawnUpdate(u, payload[u].position, payload[u].velocity,
                      payload[u].direction, tick_count') : u \in moved}
    /\ UNCHANGED <<ioVars, server_tick_receiver, remote_receiver, players, ui_layer,
                   has_voted, delivered, disconnected, lastProc, netVars, voteVars, castVars>>

\* What send_tick reads from a moved pawn: Transform, Velocity and Pawn.
Payloads ==
    {[position |-> "p1", velocity |-> DefaultVelocity, direction |-> "Right"],
     [position |-> "p2", velocity |-> "fast", direction |-> "Left"]}

(***************************************************************************)
(* Server: session registry, handshake, UDP listener, recv_tick            *)
(***************************************************************************)
Clients == 1..NumClients
Rogue == 0                         \* an endpoint that never connects
IdleClients == (NumClients + 1)..(NumClients + NumIdleClients)
LastEndpoint == NumClients + NumIdleClients
Endpoints == Clients \cup IdleClients \cup {Rogue}    \* UDP source addresses
ServerUuids == 1..LastEndpoint
NoSession == 0                     \* the registry has no entry for the key
NoPawn == "none"

\* GameInput batches a datagram carries (RemoteClientGameRequest.inputs).
Batches == {<<"MoveLeft">>, <<"Exit">>}

\* A datagram: source address, RemoteClientGameRequest{id, inputs}, and
\* whether rmp_serde can decode its payload.
Datagrams == [src : Clients \cup {Rogue}, id : 1..NumClients, inputs : Batches,
              ok : BOOLEAN]

\* A background task handed to the tokio runtime: what it sends, to which
\* endpoint (Broadcast: every entry of the registry), and the uuid and map
\* its message carries.
Broadcast == 0 - 1
Task(type, to, uuid, map) == [type |-> type, to |-> to, uuid |-> uuid, map |-> map]

IdleHs == [phase |-> "idle", client |-> 0, uuid |-> 0]
\* Nothing has happened yet on the connection of a client: sent is the state
\* the handshake sent, first the first control message written to the stream
\* after ServerMetadata.
NoHandshake == [uuid |-> 0, metaSent |-> FALSE, metaRecv |-> FALSE,
                failed |-> FALSE, sent |-> "none", first |-> "none"]
NewLink == [s2c_meta |-> FALSE, c2s_meta |-> FALSE,
            srv_closed |-> FALSE, cli_closed |-> FALSE]

\* ClientRequest::ClientPawnSync as the accept loop enqueues it on a join.
ClientPawnSync(uuid, addr) ==
    [request |-> "ClientPawnSync", map |-> "none", uuid |-> uuid, addr |-> addr]

\* The accept loop takes a TCP connection and draws a fresh uuid.  On the
\* client side connect_to_address has connected and bound its UDP socket.
Accept(c) ==
    /\ ~panicked
    /\ hs.phase = "idle"
    /\ cli[c].phase = "idle"
    /\ hs' = [phase |-> "exchange_write", client |-> c, uuid |-> next_uuid]
    /\ next_uuid' = next_uuid + 1
    /\ cli' = [cli EXCEPT ![c].phase = "connected"]
    /\ hsLog' = [hsLog EXCEPT ![c].uuid = next_uuid]
    /\ UNCHANGED <<ioVars, registry, pawns, stats, client_udp_receiver, client_tcp_receiver,
                   tasks, panicked, link, listenerLog, clientVars, voteVars, castVars>>

\* The exchange failed: the accept loop drops both halves of the stream and
\* goes back to accepting; nothing of the connection is kept.
AbortHandshake ==
    /\ hs' = IdleHs
    /\ link' = [link EXCEPT ![hs.client].srv_closed = TRUE]
    /\ hsLog' = [hsLog EXCEPT ![hs.client].failed = TRUE]

\* server exchange_metadata, first half: write_to_buf_with_len(ServerMetadata).
SrvWriteMetadata(written) ==
    /\ ~panicked
    /\ hs.phase = "exchange_write"
    /\ IF written
       THEN /\ hs' = [hs EXCEPT !.phase = "exchange_read"]
            /\ link' = [link EXCEPT ![hs.client].s2c_meta = TRUE]
            /\ hsLog' = [hsLog EXCEPT ![hs.client].metaSent = TRUE]
       ELSE AbortHandshake
    /\ UNCHANGED <<ioVars, registry, pawns, stats, client_udp_receiver, client_tcp_receiver,
                   tasks, panicked, next_uuid, cli, listenerLog,
                   clientVars, voteVars, castVars>>

\* client exchange_metadata and the rest of connect_to_address: read and
\* decode ServerMetadata, write the client's metadata, spawn the tasks and
\* return the ClientConnection; any error is returned to the caller.
CliExchangeMetadata(c, written) ==
    /\ cli[c].phase = "connected"
    /\ link[c].s2c_meta \/ link[c].srv_closed
    /\ IF link[c].s2c_meta /\ written
       THEN /\ cli' = [cli EXCEPT ![c] = [phase |-> "ok", uuid |-> hs.uuid]]
            /\ link' = [link EXCEPT ![c].c2s_meta = TRUE]
       ELSE /\ cli' = [cli EXCEPT ![c].phase = "err"]
            /\ link' = [link EXCEPT ![c].cli_closed = TRUE]
    /\ UNCHANGED <<ioVars, registry, pawns, stats, client_udp_receiver, client_tcp_receiver,
                   tasks, panicked, next_uuid, hs, hsLog, listenerLog,
                   clientVars, voteVars, castVars>>

\* server exchange_metadata, second half: read_u32, read_exact, from_slice.
ReadOutcomes == {"ok", "read_error", "decode_error"}

SrvReadMetadata(outcome) ==
    /\ ~panicked
    /\ hs.phase = "exchange_read"
    /\ link[hs.client].c2s_meta \/ link[hs.client].cli_closed
    /\ link[hs.client].cli_closed => outcome = "read_error"
    /\ IF outcome = "ok"
       THEN /\ hs' = [hs EXCEPT !.phase = "send_state"]
            /\ hsLog' = [hsLog EXCEPT ![hs.client].metaRecv = TRUE]
            /\ link' = link
       ELSE AbortHandshake
    /\ UNCHANGED <<ioVars, registry, pawns, stats, client_udp_receiver, client_tcp_receiver,
                   tasks, panicked, next_uuid, cli, listenerLog,
                   clientVars, voteVars, castVars>>

\* Mutant of StateOf: the state the server was created with is reported.
StateOfCreation(gs) == "map_test"

\* The payload of ServerGameStateControl(game_state) as a client sees it.
StateOf(gs) == IF gs.kind = "Intermission" THEN "Intermission" ELSE gs.current_map

\* send_request_to_client(ServerGameStateControl(server_game_state.read()))
\* on the joining client's stream; the result of the write is ignored.  A
\* stream whose write failed stays broken.
SrvSendGameState(written) ==
    /\ ~panicked
    /\ hs.phase = "send_state"
    /\ hs' = [hs EXCEPT !.phase = "spawn"]
    /\ hsLog' = [hsLog EXCEPT
                    ![hs.client].sent = StateOf(game_state),
                    ![hs.client].first = IF written /\ @ = "none"
                                         THEN StateOf(game_state) ELSE @]
    /\ last_state' = IF written
                     THEN [last_state EXCEPT ![hs.client] = StateOf(game_state)]
                     ELSE last_state
    /\ broken' = IF written THEN broken ELSE broken \cup {hs.client}
    /\ UNCHANGED <<ioVars, registry, pawns, stats, client_udp_receiver, client_tcp_receiver,
                   tasks, panicked, next_uuid, cli, link,
                   listenerLog, clientVars, voteVars,
                   casts, castLog, stalled, removed, notices>>

\* ctx.run_on_main_thread(spawn_pawn(uuid)).
SrvSpawnPawn ==
    /\ ~panicked
    /\ hs.phase = "spawn"
    /\ pawns' = [pawns EXCEPT ![hs.uuid] = "Right"]
    /\ hs' = [hs EXCEPT !.phase = "register"]
    /\ UNCHANGED <<ioVars, registry, stats, client_udp_receiver, client_tcp_receiver,
                   tasks, panicked, next_uuid, cli, link, hsLog,
                   listenerLog, clientVars, voteVars, castVars>>

\* Mutant of SrvRegister: the endpoint is inserted as soon as the connection
\* is accepted, before exchange_metadata.
SrvRegisterOnAccept ==
    /\ ~panicked
    /\ hs.phase = "exchange_write"
    /\ registry[hs.client] = NoSession
    /\ registry' = [registry EXCEPT ![hs.client] = hs.uuid]
    /\ UNCHANGED <<ioVars, pawns, stats, client_udp_receiver, client_tcp_receiver,
                   tasks, panicked, next_uuid, hs, cli, link, hsLog,
                   listenerLog, clientVars, voteVars, castVars>>

\* connected_clients_clone.insert((client ip, client udp port), (uuid, writer))
\* followed by tcp_sender.send(ClientPawnSync).
SrvRegister ==
    /\ ~panicked
    /\ hs.phase = "register"
    /\ Len(client_tcp_receiver) < MaxTcpChan
    /\ registry' = [registry EXCEPT ![hs.client] = hs.uuid]
    /\ client_tcp_receiver' =
          Append(client_tcp_receiver, ClientPawnSync(hs.uuid, hs.client))
    /\ hs' = [hs EXCEPT !.phase = "stats"]
    /\ UNCHANGED <<ioVars, pawns, stats, client_udp_receiver, tasks, panicked, next_uuid,
                   cli, link, hsLog, listenerLog, clientVars, voteVars, castVars>>

\* The statistics entry is inserted, PlayersStatisticsChange is sent to all
\* clients and the control reader of the connection is spawned.
SrvStats ==
    /\ ~panicked
    /\ hs.phase = "stats"
    /\ stats' = stats \cup {hs.uuid}
    /\ tasks' = tasks \cup {Task("PlayersStatisticsChange", Broadcast, hs.uuid, "none")}
    /\ hs' = IdleHs
    /\ UNCHANGED <<ioVars, registry, pawns, client_udp_receiver, client_tcp_receiver,
                   panicked, next_uuid, cli, link, hsLog,
                   listenerLog, clientVars, voteVars, castVars>>

\* Mutant of IsAuthenticated: the listener forwards whatever it receives.
IsAuthenticatedAlways(reg, address) == TRUE

\* connected_clients.contains_key(&address)
IsAuthenticated(reg, address) == reg[address] # NoSession

\* setup_client_listener: one recv_from of a datagram that any endpoint,
\* connected or not, has sent to the server's UDP port; it is forwarded to
\* client_udp_receiver only if its source is a key of the registry and its
\* payload decodes.
UdpListenerRecv(d) ==
    /\ ~panicked
    /\ d \in Datagrams
    /\ listenerLog' = [received |-> TRUE, src |-> d.src, ok |-> d.ok,
                       registered |-> registry[d.src] # NoSession]
    /\ IF IsAuthenticated(registry, d.src) /\ d.ok
       THEN /\ Len(client_udp_receiver) < MaxUdpChan
            /\ client_udp_receiver' =
                  Append(client_udp_receiver,
                         [id |-> d.id, inputs |-> d.inputs, addr |-> d.src])
       ELSE client_udp_receiver' = client_udp_receiver
    /\ UNCHANGED <<ioVars, registry, pawns, stats, client_tcp_receiver, tasks, panicked,
                   next_uuid, hs, cli, link, hsLog, clientVars, voteVars, castVars>>

\* Sessions that disappear between two registries, with their cause, and the
\* uuids of the PlayerDisconnect broadcasts among a set of tasks.
Removals(reg, reg2, cause) ==
    {[uuid |-> reg[a], by |-> cause] :
        a \in {b \in Endpoints : reg[b] # NoSession /\ reg2[b] = NoSession}}
DisconnectNotices(ts) == {t.uuid : t \in {x \in ts : x.type = "PlayerDisconnect"}}

\* handle_game_input as far as it changes the Pawn: the direction.
HandleGameInput(direction, action) ==
    IF action = "MoveLeft" THEN "Left"
    ELSE IF action = "MoveRight" THEN "Right"
    ELSE direction

\* The inner loop of recv_tick over the inputs of one request whose pawn was
\* found.  st is the state recv_tick works on.
RECURSIVE ApplyInputs(_, _, _)
ApplyInputs(st, req, inputs) ==
    IF inputs = <<>> \/ st.panicked THEN st
    ELSE LET action == Head(inputs)
             moved == [st EXCEPT !.pawns[req.id] = HandleGameInput(@, action)]
         IN  IF action # "Exit"
             THEN ApplyInputs(moved, req, Tail(inputs))
             ELSE IF moved.registry[req.addr] = NoSession
                  THEN \* connected_clients_clone.remove(&address).unwrap()
                       [moved EXCEPT !.despawn = @ \cup {req.id}, !.panicked = TRUE]
                  ELSE [moved EXCEPT
                           !.despawn = @ \cup {req.id},
                           !.registry[req.addr] = NoSession,
                           !.tasks = @ \cup {Task("PlayerDisconnect", Broadcast,
                                                   moved.registry[req.addr], "none")}]

\* The while-let loop of recv_tick over client_udp_receiver.
RECURSIVE DrainRequests(_, _)
DrainRequests(st, chan) ==
    IF chan = <<>> \/ st.panicked THEN st
    ELSE LET req == Head(chan) IN
         IF st.pawns[req.id] = NoPawn
         THEN DrainRequests(st, Tail(chan))
         ELSE DrainRequests(ApplyInputs(st, req, req.inputs), Tail(chan))

\* recv_tick: the tick counter is incremented, every queued request is
\* applied, and the queued despawn commands take effect after the system.
RecvTick ==
    LET st == DrainRequests([registry |-> registry, pawns |-> pawns, despawn |-> {},
                             tasks |-> tasks, panicked |-> FALSE],
                            client_udp_receiver)
    IN  /\ ~panicked
        /\ client_udp_receiver # <<>>
        /\ client_udp_receiver' = <<>>
        /\ registry' = st.registry
        /\ removed' = removed \cup Removals(registry, st.registry, "Exit")
        /\ notices' = notices \cup DisconnectNotices(st.tasks)
        /\ tasks' = st.tasks
        /\ panicked' = st.panicked
        /\ pawns' = [u \in ServerUuids |->
                        IF u \in st.despawn /\ ~st.panicked THEN NoPawn ELSE st.pawns[u]]
        /\ UNCHANGED <<ioVars, stats, client_tcp_receiver, next_uuid, hs, cli, link,
                       hsLog, listenerLog, clientVars, voteVars,
                       casts, broken, last_state, castLog, stalled>>

InitNet ==
    /\ registry = [a \in Endpoints |-> NoSession]
    /\ pawns = [u \in ServerUuids |-> NoPawn]
    /\ stats = {}
    /\ client_udp_receiver = <<>>
    /\ client_tcp_receiver = <<>>
    /\ tasks = {}
    /\ panicked = FALSE
    /\ next_uuid = 1
    /\ hs = IdleHs
    /\ cli = [c \in Clients |-> [phase |-> "idle", uuid |-> 0]]
    /\ link = [c \in Clients |-> NewLink]
    /\ hsLog = [c \in Clients |-> NoHandshake]
    /\ listenerLog = [received |-> FALSE, src |-> Rogue, ok |-> FALSE,
                      registered |-> FALSE]

NextNet ==
    \/ \E c \in Clients : Accept(c)
    \/ \E written \in BOOLEAN : SrvWriteMetadata(written)
    \/ \E c \in Clients : \E written \in BOOLEAN : CliExchangeMetadata(c, written)
    \/ \E outcome \in ReadOutcomes : SrvReadMetadata(outcome)
    \/ \E written \in BOOLEAN : SrvSendGameState(written)
    \/ SrvSpawnPawn
    \/ SrvRegister
    \/ SrvStats
    \/ \E d \in Datagrams : UdpListenerRecv(d)
    \/ RecvTick

(***************************************************************************)
(* Server: rounds, intermissions and map votes (frame)                     *)
(***************************************************************************)
\* Mutant of MapNameVariants: the variants declared in the other order.
MapNameVariantsReversed == <<"Islands", "FlatGround">>

\* MapNameDiscriminants::VARIANTS, in declaration order.
MapNameVariants == <<"FlatGround", "Islands">>

\* MapNameDiscriminants::into_map_instance
IntoMapInstance(name) ==
    IF name = "FlatGround" THEN "map_flatground" ELSE "map_islands"

\* Mutant of CreateIntermissionDataAll: the first variant starts with a vote.
CreateIntermissionDataStale ==
    [i \in 1..Len(MapNameVariants) |->
        [map |-> MapNameVariants[i], votes |-> IF i = 1 THEN 1 ELSE 0]]

\* create_intermission_data_all: every variant with zero votes.
CreateIntermissionDataAll ==
    [i \in 1..Len(MapNameVariants) |-> [map |-> MapNameVariants[i], votes |-> 0]]

\* ServerGameState::Intermission(IntermissionData) and ::OngoingGame(data).
Intermission(selectable_maps) ==
    [kind |-> "Intermission", current_map |-> "none",
     selectable_maps |-> selectable_maps]
OngoingGame(current_map) ==
    [kind |-> "OngoingGame", current_map |-> current_map, selectable_maps |-> <<>>]

\* ClientRequest::Vote(map) as the control reader enqueues it.  sent_in is
\* history: the kind of the server's game state when it was enqueued.
Vote(map, uuid, addr, sent_in) ==
    [request |-> "Vote", map |-> map, uuid |-> uuid, addr |-> addr,
     sent_in |-> sent_in]

\* Mutant of VoteKey: the key is the negated vote count.
VoteKeyNegated(e) == 0 - e.votes

\* The key closure of max_by_key: |e| e.1
VoteKey(e) == e.votes

\* Mutant of MaxOfTwo: of two entries with equal keys the earlier is kept.
MaxOfTwoKeepEarlier(best, e) == IF VoteKey(e) > VoteKey(best) THEN e ELSE best

\* One step of Iterator::max_by_key: the entry seen so far is kept only if
\* its key is strictly greater, so of equal keys the later entry is kept.
MaxOfTwo(best, e) == IF VoteKey(best) > VoteKey(e) THEN best ELSE e

RECURSIVE MaxByKeyFrom(_, _)
MaxByKeyFrom(best, rest) ==
    IF rest = <<>> THEN best
    ELSE MaxByKeyFrom(MaxOfTwo(best, Head(rest)), Tail(rest))

\* intermission_data.selectable_maps.iter().max_by_key(|e| e.1)
MostVotedEntry(selectable_maps) ==
    MaxByKeyFrom(Head(selectable_maps), Tail(selectable_maps))

\* selectable_maps.iter().position(|(map, _)| *map == voted); 0 stands for None.
Position(selectable_maps, voted) ==
    IF \E i \in 1..Len(selectable_maps) : selectable_maps[i].map = voted
    THEN CHOOSE i \in 1..Len(selectable_maps) :
            /\ selectable_maps[i].map = voted
            /\ \A j \in 1..(i - 1) : selectable_maps[j].map # voted
    ELSE 0

\* Mutant of IngestVote: an entry that has a vote does not take another.
IngestVoteOnce(selectable_maps, idx) ==
    [selectable_maps EXCEPT ![idx].votes = IF @ = 0 THEN 1 ELSE @]

\* server_intermission_data.selectable_maps[idx].1 += 1
IngestVote(selectable_maps, idx) ==
    [selectable_maps EXCEPT ![idx].votes = @ + 1]

\* Mutant of ResetTally: the counter survives the end of the intermission.
ResetTallyKeep(leave, total) == total

\* app_ctx.intermission_total_votes = 0 at the end of the leave branch.
ResetTally(leave, total) == IF leave THEN 0 ELSE total

\* Keys of connected_client_tcp_handles.
Connected(reg) == {a \in Endpoints : reg[a] # NoSession}

(***************************************************************************)
(* Server: broadcast tasks over the session registry                       *)
(***************************************************************************)
\* A broadcast task that has started: the registry entry it visits next, in
\* the iteration order of the map, whether its write to that entry is in
\* flight (the task then holds the entry's shard lock and the client's
\* writer mutex), the sessions it has written to and those whose write
\* failed.  start is history: the sessions registered when it started.
Cast(t, reg) ==
    [task |-> t, next |-> 1, writing |-> FALSE, written |-> {}, failed |-> {},
     start |-> {reg[a] : a \in Connected(reg)}]

\* Tasks that unwrap() the result of every write; the intermission broadcast
\* collects the failing addresses instead.
Unwraps(t) == t.type # "Intermission"

\* The state carried by the ServerGameStateControl of a broadcast task.
StateIn(t) == IF t.type = "Intermission" THEN "Intermission" ELSE t.map
CarriesState(t) == t.type \in {"Intermission", "GameStart"}

\* Some running broadcast holds a shard lock across its socket write.
RegistryLocked == \E k \in casts : k.writing
LockedEntry(a) == \E k \in casts : k.writing /\ k.next = a

NoMessage == [request |-> "none", map |-> "none", uuid |-> 0, addr |-> 0]

NoFrame == [ran |-> FALSE, startState |-> "none", roundExpired |-> FALSE, checked |-> FALSE,
            timerFinished |-> FALSE, connected |-> {}, total |-> 0,
            preState |-> "none", preMaps |-> <<>>, preBallots |-> <<>>,
            left |-> FALSE, winner |-> "none", handled |-> NoMessage,
            stateAtHandling |-> "none", mapsAtHandling |-> <<>>,
            spawned |-> {}]

\* frame: tick the timers; a finished round timer opens an intermission;
\* while an intermission timer exists, leave the intermission if the countdown
\* has finished or the vote total equals the number of registry entries, and
\* then handle at most one request of client_tcp_receiver.  The inputs say
\* whether the tick of this frame finished the round timer / the countdown.
Frame(round_finished, countdown_finished) ==
    LET \* ---- lines 447-465
        roundExpired == game_round_timer = "Some" /\ round_finished
        state1 == IF roundExpired THEN Intermission(CreateIntermissionDataAll)
                  ELSE game_state
        ballots1 == IF roundExpired THEN <<>> ELSE ballots
        spawned1 == IF roundExpired
                    THEN {Task("Intermission", Broadcast, 0, "none")} ELSE {}
        \* ---- lines 467-526; timer is the clone taken at line 468
        timer == IF roundExpired THEN "Some" ELSE intermission_timer
        timerFinished == ~roundExpired /\ intermission_timer = "Some"
                            /\ countdown_finished
        connected == Connected(registry)
        leave == /\ timer = "Some"
                 /\ \/ timerFinished
                    \/ /\ intermission_total_votes = Cardinality(connected)
                       /\ connected # {}
        starts == leave /\ state1.kind = "Intermission"
        most_voted_entry == MostVotedEntry(state1.selectable_maps)
        map_instance == IntoMapInstance(most_voted_entry.map)
        state2 == IF starts THEN OngoingGame(map_instance) ELSE state1
        ballots2 == IF starts THEN <<>> ELSE ballots1
        spawned2 == IF starts
                    THEN {Task("GameStart", Broadcast, 0, map_instance)} ELSE {}
        total2 == ResetTally(leave, intermission_total_votes)
        \* ---- lines 528-675, still inside `if let Some(timer)`
        received == timer = "Some" /\ client_tcp_receiver # <<>>
        message == IF received THEN Head(client_tcp_receiver) ELSE NoMessage
        idx == IF message.request = "Vote" /\ state2.kind = "Intermission"
               THEN Position(state2.selectable_maps, message.map) ELSE 0
        state3 == IF idx # 0
                  THEN [state2 EXCEPT !.selectable_maps = IngestVote(@, idx)]
                  ELSE state2
        spawned3 ==
            IF message.request = "Vote"
            THEN IF state2.kind = "Intermission"
                 THEN (IF idx # 0
                       THEN {Task("PlayerVote", Broadcast, message.uuid, message.map)}
                       ELSE {})
                 ELSE {Task("OngoingGame", message.addr, 0, state2.current_map)}
            ELSE IF message.request = "ClientPawnSync"
                 THEN {Task("ClientPawnSync", message.addr, 0, "none")}
                 ELSE {}
    IN  /\ ~panicked
        /\ stalled = "none"
        /\ (timer = "Some" /\ ~timerFinished) => ~RegistryLocked
        /\ Cardinality(tasks) < MaxPendingTasks
        /\ game_state' = state3
        /\ game_round_timer' = IF leave THEN "Some"
                               ELSE IF roundExpired THEN "None" ELSE game_round_timer
        /\ intermission_timer' = IF leave THEN "None" ELSE timer
        /\ intermission_total_votes' = IF idx # 0 THEN total2 + 1 ELSE total2
        /\ loaded_map' = IF starts THEN map_instance ELSE loaded_map
        /\ client_tcp_receiver' = IF received THEN Tail(client_tcp_receiver)
                                  ELSE client_tcp_receiver
        /\ tasks' = tasks \cup spawned1 \cup spawned2 \cup spawned3
        /\ ballots' = IF idx # 0
                      THEN Append(ballots2, [uuid |-> message.uuid,
                                             map |-> message.map,
                                             sent_in |-> message.sent_in])
                      ELSE ballots2
        /\ frameLog' = [ran |-> TRUE,
                        startState |-> game_state.kind,
                        roundExpired |-> roundExpired,
                        checked |-> timer = "Some",
                        timerFinished |-> timerFinished,
                        connected |-> {registry[a] : a \in connected},
                        total |-> intermission_total_votes,
                        preState |-> state1.kind,
                        preMaps |-> state1.selectable_maps,
                        preBallots |-> ballots1,
                        left |-> starts,
                        winner |-> IF starts THEN most_voted_entry.map ELSE "none",
                        handled |-> message,
                        stateAtHandling |-> IF received THEN state2.kind ELSE "none",
                        mapsAtHandling |-> IF received THEN state2.selectable_maps
                                           ELSE <<>>,
                        spawned |-> spawned1 \cup spawned2 \cup spawned3]
        /\ UNCHANGED <<ioVars, registry, pawns, stats, client_udp_receiver, panicked,
                       next_uuid, hs, cli, link, hsLog, listenerLog, clientVars, castVars>>

\* The operator's "Set intermission state" button.
OperatorSetIntermission ==
    /\ ~panicked
    /\ stalled = "none"
    /\ Cardinality(tasks) < MaxPendingTasks
    /\ game_state' = Intermission(CreateIntermissionDataAll)
    /\ intermission_timer' = "Some"
    /\ tasks' = tasks \cup {Task("Intermission", Broadcast, 0, "none")}
    /\ ballots' = <<>>
    /\ frameLog' = NoFrame
    /\ UNCHANGED <<ioVars, game_round_timer, intermission_total_votes, loaded_map,
                   registry, pawns, stats, client_udp_receiver,
                   client_tcp_receiver, panicked, next_uuid, hs, cli, link,
                   hsLog, listenerLog, clientVars, castVars>>

\* Vote requests in the channel that have not been handled yet.
PendingVotes(chan) ==
    Cardinality({i \in 1..Len(chan) : chan[i].request = "Vote"})

\* The control reader of a connected client: one framed RemoteClientRequest
\* (a Vote) is read, decoded and pushed into client_tcp_receiver.
ControlReaderRecv(c, map) ==
    /\ ~panicked
    /\ registry[c] # NoSession
    /\ Len(client_tcp_receiver) < MaxTcpChan
    /\ intermission_total_votes + PendingVotes(client_tcp_receiver) < MaxVotes
    /\ client_tcp_receiver' = Append(client_tcp_receiver,
                                     Vote(map, registry[c], c, game_state.kind))
    /\ frameLog' = NoFrame
    /\ UNCHANGED <<ioVars, game_state, game_round_timer, intermission_timer,
                   intermission_total_votes, loaded_map, ballots,
                   registry, pawns, stats, client_udp_receiver, tasks, panicked,
                   next_uuid, hs, cli, link, hsLog, listenerLog, clientVars, castVars>>

\* The accept loop's path for a client whose metadata exchange succeeds,
\* taken as one step: fresh uuid, pawn, registry entry, ClientPawnSync
\* request, statistics entry.
ClientJoins(c) ==
    /\ ~panicked
    /\ hs.phase = "idle"
    /\ registry[c] = NoSession
    /\ next_uuid <= NumClients
    /\ Len(client_tcp_receiver) < MaxTcpChan
    /\ next_uuid' = next_uuid + 1
    /\ pawns' = [pawns EXCEPT ![next_uuid] = "Right"]
    /\ registry' = [registry EXCEPT ![c] = next_uuid]
    /\ client_tcp_receiver' =
          Append(client_tcp_receiver, ClientPawnSync(next_uuid, c))
    /\ stats' = stats \cup {next_uuid}
    /\ frameLog' = NoFrame
    /\ UNCHANGED <<ioVars, game_state, game_round_timer, intermission_timer,
                   intermission_total_votes, loaded_map, ballots,
                   client_udp_receiver, tasks, panicked, hs, cli, link, hsLog,
                   listenerLog, clientVars, castVars>>

\* recv_tick handling the Exit request of a connected client.
ClientExits(c) ==
    LET st == DrainRequests([registry |-> registry, pawns |-> pawns,
                             despawn |-> {}, tasks |-> tasks, panicked |-> FALSE],
                            <<[id |-> registry[c], inputs |-> <<"Exit">>,
                               addr |-> c]>>)
    IN  /\ ~panicked
        /\ stalled = "none"
        /\ ~LockedEntry(c)
        /\ Cardinality(tasks) < MaxPendingTasks
        /\ registry[c] # NoSession
        /\ registry' = st.registry
        /\ removed' = removed \cup Removals(registry, st.registry, "Exit")
        /\ notices' = notices \cup DisconnectNotices(st.tasks)
        /\ tasks' = st.tasks
        /\ panicked' = st.panicked
        /\ pawns' = [u \in ServerUuids |->
                        IF u \in st.despawn /\ ~st.panicked THEN NoPawn ELSE st.pawns[u]]
        /\ frameLog' = NoFrame
        /\ UNCHANGED <<ioVars, game_state, game_round_timer, intermission_timer,
                       intermission_total_votes, loaded_map, ballots, stats,
                       client_udp_receiver, client_tcp_receiver, next_uuid, hs,
                       cli, link, hsLog, listenerLog, clientVars,
                       casts, broken, last_state, castLog, stalled>>

\* The runtime runs a spawned task to its end.  The intermission broadcast
\* removes from the registry the endpoints whose write failed.
TaskRuns(t, erroring) ==
    /\ t \in tasks
    /\ erroring \subseteq Connected(registry)
    /\ t.type # "Intermission" => erroring = {}
    /\ tasks' = tasks \ {t}
    /\ registry' = [a \in Endpoints |->
                       IF a \in erroring THEN NoSession ELSE registry[a]]
    /\ removed' = removed \cup
          {[uuid |-> registry[a], by |-> "write failure"] : a \in erroring}
    /\ frameLog' = NoFrame
    /\ UNCHANGED <<ioVars, game_state, game_round_timer, intermission_timer,
                   intermission_total_votes, loaded_map, ballots, pawns, stats,
                   client_udp_receiver, client_tcp_receiver, panicked,
                   next_uuid, hs, cli, link, hsLog, listenerLog, clientVars,
                   casts, broken, last_state, castLog, stalled, notices>>

\* The server once it has been started: the initial game state of
\* create_server (a debug build starts on map_test, a release build on
\* map_flatground) with its map loaded and the round timer running.
InitVote ==
    /\ game_state \in {OngoingGame("map_test"), OngoingGame("map_flatground")}
    /\ loaded_map = game_state.current_map
    /\ game_round_timer = "Some"
    /\ intermission_timer = "None"
    /\ intermission_total_votes = 0
    /\ ballots = <<>>
    /\ frameLog = NoFrame

NextVote ==
    \/ \E round_finished \in BOOLEAN : \E countdown_finished \in BOOLEAN :
          Frame(round_finished, countdown_finished)
    \/ OperatorSetIntermission
    \/ \E c \in Clients : \E map \in {MapNameVariants[i] : i \in 1..Len(MapNameVariants)} :
          ControlReaderRecv(c, map)
    \/ \E c \in Clients : ClientJoins(c)
    \/ \E c \in Clients : ClientExits(c)
    \/ \E t \in tasks : \E erroring \in SUBSET Clients : TaskRuns(t, erroring)

(***************************************************************************)
(* Server: execution of the broadcast tasks                                 *)
(***************************************************************************)
\* The runtime starts a spawned broadcast task.
CastStarts(t) ==
    /\ t \in tasks
    /\ Cardinality(casts) + Cardinality(castLog) < MaxBroadcasts
    /\ t.to = Broadcast
    /\ tasks' = tasks \ {t}
    /\ casts' = casts \cup {Cast(t, registry)}
    /\ frameLog' = NoFrame
    /\ UNCHANGED <<ioVars, broken, last_state, castLog, stalled, removed, notices,
                   game_state, game_round_timer, intermission_timer,
                   intermission_total_votes, loaded_map, ballots, registry,
                   pawns, stats, client_udp_receiver, client_tcp_receiver,
                   panicked, next_uuid, hs, cli, link, hsLog, listenerLog,
                   clientVars>>

\* The iteration of a broadcast reaches its next entry: an empty slot is
\* passed over; at a session the task takes the locks and starts the write.
CastVisit(k) ==
    /\ k \in casts
    /\ ~k.writing
    /\ k.next <= LastEndpoint
    /\ ~LockedEntry(k.next)
    /\ casts' = (casts \ {k}) \cup
          {IF registry[k.next] = NoSession
           THEN [k EXCEPT !.next = @ + 1]
           ELSE [k EXCEPT !.writing = TRUE]}
    /\ frameLog' = NoFrame
    /\ UNCHANGED <<ioVars, tasks, broken, last_state, castLog, stalled, removed, notices,
                   game_state, game_round_timer, intermission_timer,
                   intermission_total_votes, loaded_map, ballots, registry,
                   pawns, stats, client_udp_receiver, client_tcp_receiver,
                   panicked, next_uuid, hs, cli, link, hsLog, listenerLog,
                   clientVars>>

\* What is left of a broadcast when it ends: after are the sessions
\* registered once it has ended, dropped those it removed itself, unvisited
\* the registered sessions its iteration had not reached.
CastResult(k, aborted, reg, dropped) ==
    [task |-> k.task, written |-> k.written, failed |-> k.failed,
     aborted |-> aborted, start |-> k.start,
     after |-> {reg[a] : a \in Connected(reg)},
     unvisited |-> {reg[a] : a \in {b \in Connected(reg) : b >= k.next}},
     dropped |-> dropped]

\* The write in flight completes.  A failed write is remembered by the
\* intermission broadcast, which goes on; in the other broadcasts unwrap()
\* panics and the task ends there, its locks released by the unwinding.
CastWriteDone(k) ==
    LET a == k.next
        ok == a \notin broken
        k2 == IF ok
              THEN [k EXCEPT !.written = @ \cup {registry[a]},
                             !.next = @ + 1, !.writing = FALSE]
              ELSE [k EXCEPT !.failed = @ \cup {registry[a]},
                             !.next = @ + 1, !.writing = FALSE]
        panics == ~ok /\ Unwraps(k.task)
    IN  /\ k \in casts
        /\ k.writing
        /\ casts' = IF panics THEN casts \ {k} ELSE (casts \ {k}) \cup {k2}
        /\ castLog' = IF panics
                      THEN castLog \cup {CastResult(k2, TRUE, registry, {})}
                      ELSE castLog
        /\ last_state' = IF ok /\ CarriesState(k.task)
                         THEN [last_state EXCEPT ![a] = StateIn(k.task)]
                         ELSE last_state
        /\ hsLog' = IF ok /\ a \in Clients
                    THEN [hsLog EXCEPT ![a].first = IF @ = "none" THEN k.task.type
                                                    ELSE @]
                    ELSE hsLog
        /\ stalled' = "none"
        /\ frameLog' = NoFrame
        /\ UNCHANGED <<ioVars, tasks, broken, removed, notices,
                       game_state, game_round_timer, intermission_timer,
                       intermission_total_votes, loaded_map, ballots, registry,
                       pawns, stats, client_udp_receiver, client_tcp_receiver,
                       panicked, next_uuid, hs, cli, link, listenerLog,
                       clientVars>>

\* The iteration is over.  The intermission broadcast now removes the
\* entries whose write failed; the other broadcasts just end.
CastEnds(k) ==
    LET erroring == IF Unwraps(k.task) THEN {}
                    ELSE {a \in Connected(registry) : registry[a] \in k.failed}
        registry2 == [a \in Endpoints |->
                         IF a \in erroring THEN NoSession ELSE registry[a]]
    IN  /\ k \in casts
        /\ ~k.writing
        /\ k.next > LastEndpoint
        /\ \A a \in erroring : ~LockedEntry(a)
        /\ casts' = casts \ {k}
        /\ registry' = registry2
        /\ removed' = removed \cup Removals(registry, registry2, "write failure")
        /\ castLog' = castLog \cup
              {CastResult(k, FALSE, registry2, {registry[a] : a \in erroring})}
        /\ frameLog' = NoFrame
        /\ UNCHANGED <<ioVars, tasks, broken, last_state, stalled, notices,
                       game_state, game_round_timer, intermission_timer,
                       intermission_total_votes, loaded_map, ballots,
                       pawns, stats, client_udp_receiver, client_tcp_receiver,
                       panicked, next_uuid, hs, cli, link, hsLog, listenerLog,
                       clientVars>>

\* The control connection of a client breaks: from now on every write to it
\* returns an error.
SocketBreaks(c) ==
    /\ registry[c] # NoSession
    /\ c \notin broken
    /\ broken' = broken \cup {c}
    /\ frameLog' = NoFrame
    /\ UNCHANGED <<ioVars, casts, last_state, castLog, stalled, removed, notices,
                   game_state, game_round_timer, intermission_timer,
                   intermission_total_votes, loaded_map, ballots, registry,
                   pawns, stats, client_udp_receiver, client_tcp_receiver, tasks,
                   panicked, next_uuid, hs, cli, link, hsLog, listenerLog,
                   clientVars>>

\* check_players_out_of_bounds for a pawn that fell off the map: its
\* statistics entry changes and the change is broadcast.
CheckPlayersOutOfBounds(u) ==
    /\ ~panicked
    /\ stalled = "none"
    /\ Cardinality(tasks) < MaxPendingTasks
    /\ pawns[u] # NoPawn
    /\ u \in stats
    /\ tasks' = tasks \cup {Task("PlayersStatisticsChange", Broadcast, u, "none")}
    /\ frameLog' = NoFrame
    /\ UNCHANGED <<ioVars, castVars, game_state, game_round_timer, intermission_timer,
                   intermission_total_votes, loaded_map, ballots, registry,
                   pawns, stats, client_udp_receiver, client_tcp_receiver,
                   panicked, next_uuid, hs, cli, link, hsLog, listenerLog,
                   clientVars>>

\* frame reaches connected_client_tcp_handles.len() while a broadcast holds
\* a shard lock across its write: the main thread waits for the lock.
FrameWaits ==
    /\ ~panicked
    /\ stalled = "none"
    /\ intermission_timer = "Some"
    /\ RegistryLocked
    /\ stalled' = "frame"
    /\ frameLog' = NoFrame
    /\ UNCHANGED <<ioVars, casts, broken, last_state, castLog, removed, notices,
                   game_state, game_round_timer, intermission_timer,
                   intermission_total_votes, loaded_map, ballots, registry,
                   pawns, stats, client_udp_receiver, client_tcp_receiver, tasks,
                   panicked, next_uuid, hs, cli, link, hsLog, listenerLog,
                   clientVars>>

\* recv_tick reaches connected_clients_clone.remove(&address) for an Exit
\* while a broadcast holds the lock of that entry's shard.
RecvTickWaits(c) ==
    /\ ~panicked
    /\ stalled = "none"
    /\ registry[c] # NoSession
    /\ LockedEntry(c)
    /\ stalled' = "recv_tick"
    /\ frameLog' = NoFrame
    /\ UNCHANGED <<ioVars, casts, broken, last_state, castLog, removed, notices,
                   game_state, game_round_timer, intermission_timer,
                   intermission_total_votes, loaded_map, ballots, registry,
                   pawns, stats, client_udp_receiver, client_tcp_receiver, tasks,
                   panicked, next_uuid, hs, cli, link, hsLog, listenerLog,
                   clientVars>>

InitCast ==
    /\ casts = {}
    /\ broken = {}
    /\ last_state = [a \in Endpoints |-> "none"]
    /\ castLog = {}
    /\ stalled = "none"
    /\ removed = {}
    /\ notices = {}

NextCast ==
    \/ \E round_finished \in BOOLEAN : \E countdown_finished \in BOOLEAN :
          Frame(round_finished, countdown_finished)
    \/ OperatorSetIntermission
    \/ \E c \in Clients : ClientExits(c)
    \/ \E u \in ServerUuids : CheckPlayersOutOfBounds(u)
    \/ \E c \in Clients : SocketBreaks(c)
    \/ \E t \in tasks : CastStarts(t)
    \/ \E k \in casts : CastVisit(k)
    \/ \E k \in casts : CastWriteDone(k)
    \/ \E k \in casts : CastEnds(k)
    \/ FrameWaits
    \/ \E c \in Clients : RecvTickWaits(c)

InitClient ==
    /\ tick_count = 0
    /\ udpToClient = {}
    /\ server_tick_receiver = <<>>
    /\ remote_receiver = <<>>
    /\ players = [u \in Uuids |-> NoEntity]
    /\ ui_layer = "Game"
    /\ has_voted = FALSE
    /\ delivered = [u \in Uuids |-> {}]
    /\ disconnected = {}
    /\ lastProc = [u \in Uuids |-> NoProc]

(***************************************************************************)
(* Initial values of the channel, task and client-connection state         *)
(***************************************************************************)
NoWriter == 0
Writers == 1..NumWriters

InitWireVars ==
    /\ writer_lock = NoWriter
    /\ wire_stream = <<>>
    /\ writers = [w \in Writers |-> [pc |-> "idle", written |-> 0]]

ByteSamples == {0, 1, 255}

InitFrmVars ==
    /\ frm_payload = <<>>
    /\ frm_buf = <<>>
    /\ frm_pc = "start"
    /\ frm_len = 0
    /\ frm_read = <<>>

InitRxVars ==
    /\ rx_wire = <<>>
    /\ rx_sock = <<>>
    /\ rx = [pc |-> "select", hdr |-> <<>>, need |-> 0, buf |-> <<>>]
    /\ rx_outbound = 0
    /\ rx_sent = <<>>
    /\ rx_consumed = <<>>
    /\ rx_decoded = <<>>

InitLsVars ==
    /\ readers = [c \in Clients |-> "running"]
    /\ tick_listener = "running"

InitStVars ==
    /\ server_stats_set = <<>>
    /\ client_stats_set = <<>>
    /\ stats_channel = <<>>
    /\ stats_joined = {}
    /\ stats_seen = {}

NoConnection == [token |-> 0, fresh |-> TRUE]

InitCnVars ==
    /\ cancellation_token = 1
    /\ cancelled_tokens = {}
    /\ connect_attempts = {}
    /\ attempts_started = 0
    /\ connection_receiver = <<>>
    /\ client_connection = NoConnection

ClientTasks == {"control_handler", "input_sender", "tick_listener"}
ServerTasks == {"accept_loop", "udp_listener", "control_reader"}
BgTasks == ClientTasks \cup ServerTasks

InitBgVars ==
    /\ token_cancelled = [side \in {"client", "server"} |-> FALSE]
    /\ bg = [t \in BgTasks |-> "select"]

NoDatagram == [by |-> "none", size |-> 0]

InitDgVars ==
    /\ udp_last = NoDatagram
    /\ udp_sent = 0

\* A client that has not connected.
NoPeer == [ip |-> 0, tcp_port |-> 0, game_socket_port |-> 0]
Ips == 1..NumIps
Ports == 1..NumPorts
SocketAddrs == Ips \X Ports
NoReply == [ran |-> FALSE, request |-> "none", from |-> 0, to |-> 0]

InitRpVars ==
    /\ peers = [c \in Clients |-> NoPeer]
    /\ handles = [a \in SocketAddrs |-> NoSession]
    /\ tagged_requests = <<>>
    /\ reply_tasks = {}
    /\ reply_last = NoReply

NoBatch == <<>>

\* The task as tokio::spawn leaves it: at its select!, holding no batch.
InitSdVars ==
    /\ input_channel = <<>>
    /\ input_closed = FALSE
    /\ sender_token = FALSE
    /\ sender_uuid = 1
    /\ sender = [pc |-> "select", batch |-> NoBatch]
    /\ socket_sent = <<>>
    /\ batches_queued = 0

InitVtVars == remote_server_sender = <<>>

InitIo ==
    /\ InitVtVars
    /\ InitSdVars
    /\ InitRpVars
    /\ InitDgVars
    /\ InitBgVars
    /\ InitWireVars
    /\ InitFrmVars
    /\ InitRxVars
    /\ InitLsVars
    /\ InitStVars
    /\ InitCnVars

InitBase == InitClient /\ InitNet /\ InitVote /\ InitCast

Init == InitBase /\ InitIo

NextTick ==
    \/ \E moved \in SUBSET Uuids : \E payload \in [moved -> Payloads] :
          SendTick(moved, payload)
    \/ \E t \in udpToClient : ClientTickListener(t)
    \/ HandleServerOutput

SpecTick == Init /\ [][NextTick]_vars

SpecNet == Init /\ [][NextNet]_vars

SpecVote == Init /\ [][NextVote]_vars

\* The server with some clients already connected: each went through the
\* accept loop, which gave it a uuid, a pawn, a registry entry and a
\* statistics entry and sent it the game state; the ClientPawnSync requests
\* of the joins have been handled.
InitConnected ==
    /\ InitClient
    /\ InitVote
    /\ \E S \in SUBSET (Clients \cup IdleClients) :
          /\ registry = [a \in Endpoints |-> IF a \in S THEN a ELSE NoSession]
          /\ pawns = [u \in ServerUuids |-> IF u \in S THEN "Right" ELSE NoPawn]
          /\ stats = S
          /\ last_state = [a \in Endpoints |->
                              IF a \in S THEN StateOf(game_state) ELSE "none"]
    /\ client_udp_receiver = <<>>
    /\ client_tcp_receiver = <<>>
    /\ tasks = {}
    /\ panicked = FALSE
    /\ next_uuid = LastEndpoint + 1
    /\ hs = IdleHs
    /\ cli = [c \in Clients |-> [phase |-> "idle", uuid |-> 0]]
    /\ link = [c \in Clients |-> NewLink]
    /\ hsLog = [c \in Clients |->
                  IF registry[c] = NoSession THEN NoHandshake
                  ELSE [NoHandshake EXCEPT
                           !.uuid = registry[c], !.metaSent = TRUE,
                           !.metaRecv = TRUE,
                           !.sent = StateOf(game_state),
                           !.first = StateOf(game_state)]]
    /\ listenerLog = [received |-> FALSE, src |-> Rogue, ok |-> FALSE,
                      registered |-> FALSE]
    /\ casts = {}
    /\ broken = {}
    /\ castLog = {}
    /\ stalled = "none"
    /\ removed = {}
    /\ notices = {}
    /\ InitIo

SpecCast == InitConnected /\ [][NextCast]_vars

\* The accept loop next to the frame system and the broadcast tasks.
NextJoin ==
    \/ \E c \in Clients : Accept(c)
    \/ \E written \in BOOLEAN : SrvWriteMetadata(written)
    \/ \E c \in Clients : \E written \in BOOLEAN : CliExchangeMetadata(c, written)
    \/ \E outcome \in ReadOutcomes : SrvReadMetadata(outcome)
    \/ \E written \in BOOLEAN : SrvSendGameState(written)
    \/ SrvSpawnPawn
    \/ SrvRegister
    \/ SrvStats
    \/ \E round_finished \in BOOLEAN : \E countdown_finished \in BOOLEAN :
          Frame(round_finished, countdown_finished)
    \/ \E t \in tasks : CastStarts(t)
    \/ \E k \in casts : CastVisit(k)
    \/ \E k \in casts : CastWriteDone(k)
    \/ \E k \in casts : CastEnds(k)

SpecJoin == Init /\ [][NextJoin]_vars

(***************************************************************************)
(* Claims about the client's tick reconciliation (SpecTick)                *)
(***************************************************************************)

Greatest(ticks) == CHOOSE t \in ticks : \A s \in ticks : s.tick_count <= t.tick_count

\* Every delivered tick of uuid u has been handled.
AllHandled(u) ==
    \A i \in 1..Len(server_tick_receiver) : server_tick_receiver[i].id # u

\* C2 (as claimed): once every delivered tick of an entity has been handled
\* (the first of them creating the shadow entity), the entity's transform is
\* the one carried by the delivered tick with the greatest tick_count.
C2_GreatestTickWins ==
    \A u \in Uuids :
        (delivered[u] # {} /\ AllHandled(u)) =>
            /\ players[u].present
            /\ players[u].position = Greatest(delivered[u]).position

(***************************************************************************)
(* Claims about the handshake and the UDP listener (SpecNet)               *)
(***************************************************************************)

\* C3: a datagram whose source address is not a key of the session registry
\* when the listener receives it is never appended to client_udp_receiver,
\* and receiving it changes no pawn, no registry entry, no statistics entry
\* and spawns no task.
C3_UnregisteredNeverForwarded ==
    [][/\ Len(client_udp_receiver') > Len(client_udp_receiver) =>
            registry[client_udp_receiver'[Len(client_udp_receiver')].addr] # NoSession
       /\ (listenerLog' # listenerLog /\ ~listenerLog'.registered) =>
            UNCHANGED <<client_udp_receiver, pawns, registry, stats, tasks, panicked>>
      ]_vars

\* Witness of C3: the listener took a decodable datagram from an address
\* without a session while a pawn existed that it could have acted on.
C3_Witness ==
    /\ listenerLog.received
    /\ ~listenerLog.registered
    /\ listenerLog.ok
    /\ \E u \in ServerUuids : pawns[u] # NoPawn

\* C4: an endpoint is in the session registry only after the server has sent
\* ServerMetadata to that client and received the client's metadata, and
\* every datagram the listener forwarded comes from a client that had been
\* sent ServerMetadata.
C4_HandshakeBeforeRegistration ==
    /\ \A c \in Clients :
          registry[c] # NoSession => hsLog[c].metaSent /\ hsLog[c].metaRecv
    /\ \A i \in 1..Len(client_udp_receiver) :
          /\ client_udp_receiver[i].addr \in Clients
          /\ hsLog[client_udp_receiver[i].addr].metaSent

\* Witness of C4: a datagram of a registered client has been forwarded.
C4_Witness ==
    \E i \in 1..Len(client_udp_receiver) :
        registry[client_udp_receiver[i].addr] # NoSession

\* C5 (as claimed): after a failed metadata exchange with a client the
\* registry, the statistics set and the pawns hold nothing of that
\* connection, and the client's connect_to_address has not returned a
\* ClientConnection.
C5_FailedExchangeIsAnError ==
    \A c \in Clients :
        hsLog[c].failed =>
            /\ registry[c] = NoSession
            /\ hsLog[c].uuid \notin stats
            /\ pawns[hsLog[c].uuid] = NoPawn
            /\ cli[c].phase # "ok"

\* The server's half of C5 alone.
C5_ServerKeepsNothing ==
    \A c \in Clients :
        hsLog[c].failed =>
            /\ registry[c] = NoSession
            /\ hsLog[c].uuid \notin stats
            /\ pawns[hsLog[c].uuid] = NoPawn

(***************************************************************************)
(* Claims about intermissions and map votes (SpecVote)                     *)
(***************************************************************************)

\* The uuids whose votes are among the ballots bs.
Voters(bs) == {bs[k].uuid : k \in 1..Len(bs)}

\* When the frame that just ran made its check, at least one client was
\* connected and every connected client had a vote tallied.
EveryConnectedClientVoted ==
    /\ frameLog.connected # {}
    /\ frameLog.connected \subseteq Voters(frameLog.preBallots)

\* C6 (as claimed): a frame that finds the server in Intermission takes it to
\* OngoingGame exactly if the intermission countdown has finished or at least
\* one client is connected and every connected client has cast a vote.
C6_LeavesWhenCountdownOrAllVoted ==
    (frameLog.ran /\ frameLog.preState = "Intermission") =>
        (frameLog.left <=> (frameLog.timerFinished \/ EveryConnectedClientVoted))

\* The highest vote count among the entries, and the indices that have it.
TopVotes(maps) ==
    CHOOSE v \in {maps[i].votes : i \in 1..Len(maps)} :
        \A i \in 1..Len(maps) : maps[i].votes <= v
Tied(maps) == {i \in 1..Len(maps) : maps[i].votes = TopVotes(maps)}
Earliest(S) == CHOOSE i \in S : \A j \in S : i <= j
Latest(S) == CHOOSE i \in S : \A j \in S : j <= i

\* C7: when the server leaves Intermission, the winner is an entry of
\* selectable_maps whose vote count is at least that of every other entry,
\* and its map instance is the one that is loaded, stored in the game state
\* and announced to the clients.
C7_WinnerHasMostVotes ==
    frameLog.left =>
        /\ \E i \in 1..Len(frameLog.preMaps) :
              /\ frameLog.preMaps[i].map = frameLog.winner
              /\ \A j \in 1..Len(frameLog.preMaps) :
                    frameLog.preMaps[j].votes <= frameLog.preMaps[i].votes
        /\ loaded_map = IntoMapInstance(frameLog.winner)
        /\ game_state = OngoingGame(IntoMapInstance(frameLog.winner))
        /\ \E t \in frameLog.spawned : t.type = "GameStart"
        /\ \A t \in frameLog.spawned :
              t.type = "GameStart" => t.map = IntoMapInstance(frameLog.winner)

\* Witness of C7: the intermission ended with unequal vote counts and the
\* winner, an entry that is not the last one, had more votes than another.
C7_Witness ==
    /\ frameLog.left
    /\ \E i, j \in 1..Len(frameLog.preMaps) :
          /\ i < j
          /\ frameLog.preMaps[i].map = frameLog.winner
          /\ frameLog.preMaps[i].votes > frameLog.preMaps[j].votes

\* Ballots for map m among the first k ballots.
CountIn(bs, k, m) == Cardinality({i \in 1..k : bs[i].map = m})

\* The map whose tally was the first to reach v, in the order of the ballots.
FirstToReach(bs, v) ==
    LET k == CHOOSE k \in 1..Len(bs) :
                /\ CountIn(bs, k, bs[k].map) = v
                /\ \A j \in 1..(k - 1) : CountIn(bs, j, bs[j].map) # v
    IN  bs[k].map

C10_EveryVoteCountsOnce ==
    /\ (frameLog.handled.request = "Vote"
            /\ frameLog.stateAtHandling = "Intermission") =>
          /\ game_state.kind = "Intermission"
          /\ Len(game_state.selectable_maps) = Len(frameLog.mapsAtHandling)
          /\ \A i \in 1..Len(frameLog.mapsAtHandling) :
                /\ game_state.selectable_maps[i].map = frameLog.mapsAtHandling[i].map
                /\ game_state.selectable_maps[i].votes =
                      frameLog.mapsAtHandling[i].votes
                        + (IF frameLog.mapsAtHandling[i].map = frameLog.handled.map
                           THEN 1 ELSE 0)
    /\ game_state.kind = "Intermission" =>
          \A i \in 1..Len(game_state.selectable_maps) :
              game_state.selectable_maps[i].votes =
                  CountIn(ballots, Len(ballots),
                          game_state.selectable_maps[i].map)

\* Witness of C10: the second Vote of one client for one map has just been
\* handled and that map's count is two.
C10_Witness ==
    /\ frameLog.handled.request = "Vote"
    /\ frameLog.stateAtHandling = "Intermission"
    /\ \E k1, k2 \in 1..Len(ballots) :
          /\ k1 < k2
          /\ k2 = Len(ballots)
          /\ ballots[k1] = ballots[k2]
          /\ ballots[k2].map = frameLog.handled.map
          /\ \E i \in 1..Len(game_state.selectable_maps) :
                /\ game_state.selectable_maps[i].map = frameLog.handled.map
                /\ game_state.selectable_maps[i].votes = 2

\* C11 (as claimed): a Vote that was sent while the server was not in
\* Intermission is never tallied: no ballot of any intermission was sent
\* outside Intermission, and handling such a Vote leaves the vote counts and
\* the total-votes counter as they were.
C11_VoteOutsideIntermissionNeverTallied ==
    /\ \A k \in 1..Len(ballots) : ballots[k].sent_in = "Intermission"
    /\ (frameLog.handled.request = "Vote"
            /\ frameLog.handled.sent_in # "Intermission"
            /\ frameLog.stateAtHandling = "Intermission") =>
          /\ game_state.selectable_maps = frameLog.mapsAtHandling
          /\ intermission_total_votes = 0

\* C13: right after a frame has taken the server from Intermission to
\* OngoingGame the total-votes counter is 0, there is no intermission timer
\* and a round timer is running; the counter stays 0 for the whole round, so
\* the next intermission starts from an empty tally.
C13_LeaveResetsTallyAndTimers ==
    /\ frameLog.left =>
          /\ intermission_total_votes = 0
          /\ intermission_timer = "None"
          /\ game_round_timer = "Some"
    /\ game_state.kind = "OngoingGame" => intermission_total_votes = 0

\* Witness of C13: an intermission in which votes had been tallied has just
\* been left.
C13_Witness ==
    /\ frameLog.left
    /\ frameLog.total > 0
    /\ Len(frameLog.preBallots) > 0

(***************************************************************************)
(* Claims about the broadcast tasks (SpecCast)                             *)
(***************************************************************************)

\* The sessions that were registered from the start of an ended broadcast
\* to its end.
Stayed(r) == r.start \cap (r.after \cup r.dropped)

\* C12: when the round timer finishes while the state is OngoingGame, the
\* frame stores an Intermission whose data has every map variant with zero
\* votes, clears the round timer, starts the countdown and spawns the
\* intermission broadcast; that broadcast runs over the whole registry, so
\* every session registered while it ran had ServerGameStateControl
\* (Intermission) written to its socket or the write attempted and failed.
C12_RoundEndOpensIntermission ==
    /\ (frameLog.roundExpired /\ frameLog.startState = "OngoingGame") =>
          /\ frameLog.preState = "Intermission"
          /\ Len(frameLog.preMaps) = Len(MapNameVariants)
          /\ \A i \in 1..Len(MapNameVariants) :
                /\ frameLog.preMaps[i].map = MapNameVariants[i]
                /\ frameLog.preMaps[i].votes = 0
          /\ game_state.kind = "Intermission"
          /\ game_round_timer = "None"
          /\ intermission_timer = "Some"
          /\ Task("Intermission", Broadcast, 0, "none") \in frameLog.spawned
          /\ Task("Intermission", Broadcast, 0, "none") \in tasks
    /\ \A r \in castLog : r.task.type = "Intermission" =>
          /\ ~r.aborted
          /\ Stayed(r) \subseteq r.written \cup r.failed
          /\ r.written \cap r.failed = {}

C12_Witness ==
    /\ frameLog.roundExpired
    /\ frameLog.startState = "OngoingGame"
    /\ \E r \in castLog :
          /\ r.task.type = "Intermission"
          /\ Cardinality(r.written) = NumClients + NumIdleClients

\* C14: in a broadcast of the game state (the intermission broadcast and the
\* game-start broadcast) a write that fails for one client does not stop the
\* broadcast for the others, and once the broadcast has ended the failing
\* client's entry is no longer in the registry.
C14_StateBroadcastSurvivesWriteFailure ==
    \A r \in castLog : (CarriesState(r.task) /\ r.failed # {}) =>
        /\ ~r.aborted
        /\ r.unvisited = {}
        /\ r.failed \cap r.after = {}

\* C15: when PlayersStatisticsChange is broadcast and the write fails for
\* exactly one of the registered clients, every other client registered
\* during the broadcast has the message written to it and the failing
\* session is absent from the registry afterwards, wherever it stands in the
\* iteration.
C15_StatisticsBroadcastSkipsFailingClient ==
    \A r \in castLog :
        (r.task.type = "PlayersStatisticsChange" /\ Cardinality(r.failed) = 1) =>
            /\ Stayed(r) \ r.failed \subseteq r.written
            /\ r.failed \cap r.after = {}

\* C16: handling Exit of a registered client removes its session from the
\* registry, despawns its pawn and broadcasts PlayerDisconnect with the uuid
\* of the removed session; the broadcast reaches every remaining session
\* (each has the message written to it or the write attempted).
C16_ExitRemovesAndNotifiesAll ==
    /\ \A x \in removed : x.by = "Exit" =>
          /\ x.uuid \notin {registry[a] : a \in Connected(registry)}
          /\ pawns[x.uuid] = NoPawn
          /\ x.uuid \in notices
    /\ \A r \in castLog : r.task.type = "PlayerDisconnect" =>
          /\ [uuid |-> r.task.uuid, by |-> "Exit"] \in removed
          /\ Stayed(r) \subseteq r.written \cup r.failed

\* C17: every session removed from the registry, by an Exit or after a
\* failed write of a broadcast, has a PlayerDisconnect broadcast with its
\* uuid spawned for the remaining sessions.
C17_EveryRemovalIsAnnounced ==
    \A x \in removed : x.uuid \in notices

\* The broadcasts of the game state have all run and no write has failed.
StateBroadcastsDone ==
    /\ casts = {}
    /\ \A t \in tasks : ~CarriesState(t)
    /\ broken = {}

\* C18: ServerGameStateControl messages reach each client in the order of
\* the server's state changes: once every broadcast task has finished, the
\* state each connected client received last is the server's game state.
C18_LastReceivedStateIsAuthoritative ==
    StateBroadcastsDone =>
        \A a \in Connected(registry) :
            last_state[a] = (IF game_state.kind = "Intermission"
                             THEN "Intermission" ELSE game_state.current_map)

\* C19: after a successful metadata exchange the server sends the joining
\* client ServerGameStateControl with the game state the server holds at
\* that moment, and no other control message is written to the client's
\* stream between ServerMetadata and it.
C19_JoinerGetsCurrentStateFirst ==
    [][\A c \in Clients :
          /\ hsLog'[c].first \in {"none", hsLog'[c].sent}
          /\ hsLog'[c].sent # hsLog[c].sent =>
                /\ hsLog[c].metaSent /\ hsLog[c].metaRecv
                /\ hsLog'[c].sent = (IF game_state.kind = "Intermission"
                                     THEN "Intermission"
                                     ELSE game_state.current_map)
          /\ (hs.client = c /\ hs.phase = "send_state" /\ hs' # hs) =>
                hsLog'[c].sent # "none"
      ]_vars

\* Witness of C19: a client joined during an intermission, the handshake's
\* Intermission state was the first control message on its stream and a
\* broadcast has written to it since.
C19_Witness ==
    \E c \in Clients :
        /\ hsLog[c].sent = "Intermission"
        /\ hsLog[c].first = "Intermission"
        /\ registry[c] # NoSession
        /\ \E r \in castLog : registry[c] \in r.written

\* C20: the simulation systems never wait for a lock of the registry that a
\* background task holds while it awaits a socket write.
C20_SystemsNeverWaitForBroadcast ==
    stalled = "none"

(***************************************************************************)
(* One client's control-channel write half and the tasks that write to it  *)
(***************************************************************************)

\* A broadcast or reply has been spawned; its task reaches the lock() call.
WriterSpawned(w) ==
    /\ writers[w].pc = "idle"
    /\ writers' = [writers EXCEPT ![w].pc = "waiting"]
    /\ UNCHANGED <<writer_lock, wire_stream, baseVars, notWire>>

\* The mutex that wraps the write half hands out no second guard.
LockFreeUnchecked(lock) == TRUE

\* parking_lot::Mutex::lock returns once no other guard is alive.
LockFree(lock) == lock = NoWriter

\* tcp_stream.lock() / tcp_write.lock(): the guard is taken before the write
\* starts and lives until the awaited write has returned.
WriterLocks(w) ==
    /\ writers[w].pc = "waiting"
    /\ LockFree(writer_lock)
    /\ writer_lock' = w
    /\ writers' = [writers EXCEPT ![w].pc = "writing"]
    /\ UNCHANGED <<wire_stream, baseVars, notWire>>

SocketFailed == \E v \in Writers : writers[v].pc = "failed"

\* write_to_buf_with_len: header and payload are one buffer handed to
\* write_all, which the socket takes in n more pieces; when the last piece
\* is taken the call returns and the guard is dropped.
WriterWrites(w, n) ==
    /\ writers[w].pc = "writing"
    /\ ~SocketFailed
    /\ n \in 1..(FrameChunks - writers[w].written)
    /\ wire_stream' = wire_stream \o
          [i \in 1..n |-> [task |-> w, idx |-> writers[w].written + i]]
    /\ LET done == writers[w].written + n = FrameChunks
       IN  /\ writers' = [writers EXCEPT
                            ![w].written = writers[w].written + n,
                            ![w].pc = IF done THEN "done" ELSE "writing"]
           /\ writer_lock' = IF done THEN NoWriter ELSE writer_lock
    /\ UNCHANGED <<baseVars, notWire>>

\* The socket reports an error: write_all returns Err, the task's unwrap()
\* panics (a broadcast of a game state ignores it) and the guard is dropped.
WriterFails(w) ==
    /\ writers[w].pc = "writing"
    /\ writers' = [writers EXCEPT ![w].pc = "failed"]
    /\ writer_lock' = NoWriter
    /\ UNCHANGED <<wire_stream, baseVars, notWire>>

NextWire ==
    \/ \E w \in Writers : WriterSpawned(w)
    \/ \E w \in Writers : WriterLocks(w)
    \/ \E w \in Writers : \E n \in 1..FrameChunks : WriterWrites(w, n)
    \/ \E w \in Writers : WriterFails(w)

SpecWire == Init /\ [][NextWire]_vars

\* C21: at any time at most one task is writing to the client's control
\* channel, and the frames of concurrent tasks lie on the stream one after
\* the other: every piece after a frame's first follows the piece before it
\* of the same frame, and no other frame starts before a frame has ended.
C21_OneWriterFramesContiguous ==
    /\ Cardinality({w \in Writers : writers[w].pc = "writing"}) <= 1
    /\ \A p \in 1..Len(wire_stream) :
          /\ wire_stream[p].idx > 1 =>
                /\ p > 1
                /\ wire_stream[p - 1] = [task |-> wire_stream[p].task,
                                         idx |-> wire_stream[p].idx - 1]
          /\ (wire_stream[p].idx < FrameChunks /\ p < Len(wire_stream)) =>
                wire_stream[p + 1].task = wire_stream[p].task

\* A task is in the middle of its frame while a second one waits for the
\* lock and a third has written its whole frame.
C21_Witness ==
    \E w, v, u \in Writers :
        /\ writers[w].pc = "writing"
        /\ writers[w].written \in 1..(FrameChunks - 1)
        /\ writers[v].pc = "waiting"
        /\ writers[u].pc = "done"

(***************************************************************************)
(* Length-prefixed framing (write_to_buf_with_len and its readers)         *)
(***************************************************************************)

\* u32::to_le_bytes
ToLeBytes(n) ==
    <<n % 256, (n \div 256) % 256, (n \div 65536) % 256,
      (n \div 16777216) % 256>>

\* (slice.len() as u32).to_be_bytes()
ToBeBytes(n) ==
    <<(n \div 16777216) % 256, (n \div 65536) % 256, (n \div 256) % 256,
      n % 256>>

\* u32::from_be_bytes, which read_u32 applies to the four bytes it read
FromBeBytes(h) == ((h[1] * 256 + h[2]) * 256 + h[3]) * 256 + h[4]

\* The buffer write_to_buf_with_len hands to write_all.
WithLen(slice) == ToBeBytes(Len(slice)) \o slice

\* write_to_buf_with_len(&mut stream, &slice)
WriteToBufWithLen ==
    /\ frm_pc = "start"
    /\ frm_buf' = WithLen(frm_payload)
    /\ frm_pc' = "written"
    /\ UNCHANGED <<frm_payload, frm_len, frm_read, baseVars, notFrm>>

\* read_u32 (server) / read_exact of four bytes and from_be_bytes (client)
ReadHeader ==
    /\ frm_pc = "written"
    /\ frm_len' = FromBeBytes(SubSeq(frm_buf, 1, 4))
    /\ frm_pc' = "header"
    /\ UNCHANGED <<frm_payload, frm_buf, frm_read, baseVars, notFrm>>

\* vec![0; length] and read_exact: the next frm_len bytes of the stream, or
\* an error when the stream ends before that many came.
ReadPayload ==
    /\ frm_pc = "header"
    /\ IF Len(frm_buf) >= 4 + frm_len
       THEN /\ frm_read' = SubSeq(frm_buf, 5, 4 + frm_len)
            /\ frm_pc' = "read"
       ELSE /\ frm_read' = <<>>
            /\ frm_pc' = "eof"
    /\ UNCHANGED <<frm_payload, frm_buf, frm_len, baseVars, notFrm>>

Payloads23 ==
    UNION {[1..n -> ByteSamples] : n \in 0..MaxShortPayload}
    \cup {[i \in 1..n |-> b] : n \in {LongPayload, LongPayload + 1,
                                      2 * LongPayload + 1},
                               b \in ByteSamples}

InitFraming ==
    /\ InitBase
    /\ InitVtVars
    /\ InitSdVars
    /\ InitDgVars
    /\ InitRpVars
    /\ InitWireVars
    /\ InitRxVars
    /\ InitLsVars
    /\ InitStVars
    /\ InitCnVars
    /\ InitBgVars
    /\ frm_payload \in Payloads23
    /\ frm_buf = <<>>
    /\ frm_pc = "start"
    /\ frm_len = 0
    /\ frm_read = <<>>

NextFraming ==
    \/ WriteToBufWithLen
    \/ ReadHeader
    \/ ReadPayload

SpecFraming == InitFraming /\ [][NextFraming]_vars

\* C23: what write_to_buf_with_len puts on the stream for a payload is
\* exactly four bytes more than the payload, the first four being the
\* payload's length most significant byte first; a reader that takes the
\* four-byte header and then that many bytes gets the payload back.
C23_FramingRoundTrip ==
    /\ frm_pc # "start" =>
          /\ Len(frm_buf) = 4 + Len(frm_payload)
          /\ frm_buf[1] * 16777216 + frm_buf[2] * 65536 + frm_buf[3] * 256
                + frm_buf[4] = Len(frm_payload)
          /\ \A i \in 1..Len(frm_payload) : frm_buf[4 + i] = frm_payload[i]
    /\ frm_pc # "eof"
    /\ frm_pc = "read" => frm_read = frm_payload

\* A payload long enough to need the header's second byte has been written
\* and read back.
C23_Witness ==
    /\ frm_pc = "read"
    /\ Len(frm_payload) > LongPayload
    /\ frm_buf[3] > 0

(***************************************************************************)
(* The client's control handler: decoding the inbound stream               *)
(***************************************************************************)

\* Serialized RemoteServerRequest values (rmp_serde::to_vec).
RequestPayloads == {<<7>>, <<8, 9>>}

\* rmp_serde::from_slice::<RemoteServerRequest> returns Ok
Decodable(buf) == buf \in RequestPayloads

Min(a, b) == IF a < b THEN a ELSE b

\* The server writes one request with write_to_buf_with_len.
ServerSends(payload) ==
    /\ Len(rx_sent) < MaxSent
    /\ rx_wire' = rx_wire \o WithLen(payload)
    /\ rx_sent' = Append(rx_sent, payload)
    /\ UNCHANGED <<rx_sock, rx, rx_outbound, rx_consumed, rx_decoded,
                   baseVars, notRx>>

\* TCP delivers the next n bytes; segment boundaries are unrelated to frames.
SegmentArrives(n) ==
    /\ n \in 1..Len(rx_wire)
    /\ rx_sock' = rx_sock \o SubSeq(rx_wire, 1, n)
    /\ rx_wire' = SubSeq(rx_wire, n + 1, Len(rx_wire))
    /\ UNCHANGED <<rx, rx_outbound, rx_sent, rx_consumed, rx_decoded,
                   baseVars, notRx>>

\* The UI sends a request into remote_client_sender.
UiQueuesRequest ==
    /\ rx_outbound < MaxOutbound
    /\ rx_outbound' = rx_outbound + 1
    /\ UNCHANGED <<rx_wire, rx_sock, rx, rx_sent, rx_consumed, rx_decoded,
                   baseVars, notRx>>

\* select! polls tcp_stream.read_u32(): the future takes the bytes that are
\* there into its own four-byte buffer; with four bytes it completes and the
\* branch body allocates the payload buffer.
HandlerPollsHeader ==
    /\ rx.pc = "select"
    /\ Len(rx_sock) > 0
    /\ LET k == Min(4 - Len(rx.hdr), Len(rx_sock))
           hdr == rx.hdr \o SubSeq(rx_sock, 1, k)
       IN  /\ rx_sock' = SubSeq(rx_sock, k + 1, Len(rx_sock))
           /\ rx_consumed' = rx_consumed \o SubSeq(rx_sock, 1, k)
           /\ rx' = IF Len(hdr) = 4
                    THEN [pc |-> "payload", hdr |-> <<>>,
                          need |-> FromBeBytes(hdr), buf |-> <<>>]
                    ELSE [rx EXCEPT !.hdr = hdr]
    /\ UNCHANGED <<rx_wire, rx_outbound, rx_sent, rx_decoded, baseVars, notRx>>

\* select! completes remote_client_receiver.recv(): the other branches'
\* futures are dropped, the read_u32 future with the bytes it holds among
\* them, and the request is written to the server (the result is ignored).
HandlerSends ==
    /\ rx.pc = "select"
    /\ rx_outbound > 0
    /\ rx_outbound' = rx_outbound - 1
    /\ rx' = [rx EXCEPT !.hdr = <<>>]
    /\ UNCHANGED <<rx_wire, rx_sock, rx_sent, rx_consumed, rx_decoded,
                   baseVars, notRx>>

\* read_exact(&mut buf) inside the read branch, then from_slice(..).unwrap()
\* and remote_server_sender.send(request).
HandlerReadsPayload ==
    /\ rx.pc = "payload"
    /\ Len(rx_sock) > 0 \/ rx.need = Len(rx.buf)
    /\ LET k == Min(rx.need - Len(rx.buf), Len(rx_sock))
           buf == rx.buf \o SubSeq(rx_sock, 1, k)
       IN  /\ rx_sock' = SubSeq(rx_sock, k + 1, Len(rx_sock))
           /\ rx_consumed' = rx_consumed \o SubSeq(rx_sock, 1, k)
           /\ IF Len(buf) < rx.need
              THEN /\ rx' = [rx EXCEPT !.buf = buf]
                   /\ UNCHANGED rx_decoded
              ELSE IF Decodable(buf)
              THEN /\ rx' = [pc |-> "select", hdr |-> <<>>, need |-> 0,
                             buf |-> <<>>]
                   /\ rx_decoded' = Append(rx_decoded, buf)
              ELSE /\ rx' = [rx EXCEPT !.pc = "panicked", !.buf = buf]
                   /\ UNCHANGED rx_decoded
    /\ UNCHANGED <<rx_wire, rx_outbound, rx_sent, baseVars, notRx>>

\* select! completes cancellation_token.cancelled(): break.
HandlerCancelled ==
    /\ rx.pc = "select"
    /\ rx' = [rx EXCEPT !.pc = "stopped"]
    /\ UNCHANGED <<rx_wire, rx_sock, rx_outbound, rx_sent, rx_consumed,
                   rx_decoded, baseVars, notRx>>

NextRx ==
    \/ \E payload \in RequestPayloads : ServerSends(payload)
    \/ \E n \in 1..Len(rx_wire) : SegmentArrives(n)
    \/ UiQueuesRequest
    \/ HandlerPollsHeader
    \/ HandlerSends
    \/ HandlerReadsPayload
    \/ HandlerCancelled

SpecRx == Init /\ [][NextRx]_vars

RECURSIVE Frames(_)
Frames(payloads) ==
    IF payloads = <<>> THEN <<>>
    ELSE WithLen(Head(payloads)) \o Frames(Tail(payloads))

\* The part of a frame the handler holds while it assembles it.
Assembling ==
    IF rx.pc = "select" \/ rx.pc = "stopped" THEN rx.hdr
    ELSE ToBeBytes(rx.need) \o rx.buf

\* C22: however the inbound stream is cut into segments and however the
\* reads interleave with outbound sends and cancellation checks, the decoded
\* requests are the sent requests in order, each built from one complete
\* frame, and every byte the handler has taken off the socket is part of a
\* decoded frame or of the frame being assembled: no header byte is lost.
C22_DecodingKeepsFrames ==
    /\ Len(rx_decoded) <= Len(rx_sent)
    /\ rx_decoded = SubSeq(rx_sent, 1, Len(rx_decoded))
    /\ rx.pc # "panicked"
    /\ rx_consumed = Frames(rx_decoded) \o Assembling

(***************************************************************************)
(* Reader and listener tasks and messages they cannot decode               *)
(***************************************************************************)

\* The server's control reader of client c takes one well-framed message:
\* read_u32, read_exact, from_slice::<RemoteClientRequest>(..).unwrap() and
\* tcp_sender.send.  The unwrap() ends the task when the payload does not
\* decode; nothing else in the task touches the registry.
ControlReaderStep(c, decodable, map) ==
    /\ readers[c] = "running"
    /\ registry[c] # NoSession
    /\ IF decodable
       THEN ControlReaderRecv(c, map)
       ELSE /\ readers' = [readers EXCEPT ![c] = "panicked"]
            /\ UNCHANGED <<tick_listener, baseVars, notLs>>

NextReaders ==
    \/ \E c \in Clients : \E decodable \in BOOLEAN :
       \E map \in {MapNameVariants[i] : i \in 1..Len(MapNameVariants)} :
          ControlReaderStep(c, decodable, map)
    \/ \E round_finished \in BOOLEAN : \E countdown_finished \in BOOLEAN :
          Frame(round_finished, countdown_finished)
    \/ \E t \in tasks : \E erroring \in SUBSET Clients : TaskRuns(t, erroring)

SpecReaders == InitConnected /\ [][NextReaders]_vars

\* C24: once a registered client has sent a well-framed control message
\* that does not decode, its connection is torn down: its reader has stopped
\* and its session is no longer in the registry.
C24_UndecodableControlMessageTearsDown ==
    \A c \in Clients :
        readers[c] # "running" => registry[c] = NoSession

\* setup_server_game_listener with the listener task alive.
TickListenerRecv(t) ==
    /\ tick_listener = "running"
    /\ ClientTickListener(t)

\* A datagram reaches the client's socket whose bytes after the length
\* header are no ServerTickUpdate: peek, recv, then
\* from_slice::<ServerTickUpdate>(..).unwrap() ends the task.
TickListenerRecvUndecodable ==
    /\ tick_listener = "running"
    /\ tick_listener' = "panicked"
    /\ UNCHANGED <<readers, baseVars, notLs>>

NextListen ==
    \/ \E moved \in SUBSET Uuids : \E payload \in [moved -> Payloads] :
          SendTick(moved, payload)
    \/ \E t \in udpToClient : TickListenerRecv(t)
    \/ TickListenerRecvUndecodable
    \/ HandleServerOutput

SpecListen == Init /\ [][NextListen]_vars

\* C25: a datagram that cannot be decoded is discarded and the listener
\* goes on with the datagrams that follow: the client's tick listener is
\* still running whatever has arrived.
C25_UndecodableDatagramKeepsListener ==
    tick_listener = "running"

(***************************************************************************)
(* The server's game state as a state machine (SpecVote)                   *)
(***************************************************************************)

\* A vote counted into the running intermission's data: the same maps in
\* the same order, no tally lower than before.
TallyStep ==
    /\ game_state.kind = "Intermission"
    /\ game_state'.kind = "Intermission"
    /\ Len(game_state'.selectable_maps) = Len(game_state.selectable_maps)
    /\ \A i \in 1..Len(game_state.selectable_maps) :
          /\ game_state'.selectable_maps[i].map = game_state.selectable_maps[i].map
          /\ game_state'.selectable_maps[i].votes
                >= game_state.selectable_maps[i].votes

\* C30: the server's game state is OngoingGame at startup, is never Pause,
\* and every step that changes it goes from OngoingGame to Intermission or
\* from Intermission to OngoingGame (or counts a vote into the running
\* intermission).
C30_GameStateMachine ==
    /\ game_state.kind = "OngoingGame"
    /\ [](game_state.kind \in {"OngoingGame", "Intermission"})
    /\ [][game_state' # game_state =>
            \/ game_state.kind = "OngoingGame" /\ game_state'.kind = "Intermission"
            \/ game_state.kind = "Intermission" /\ game_state'.kind = "OngoingGame"
            \/ TallyStep]_vars

(***************************************************************************)
(* Statistics: the ordered sets of ClientStatistics                        *)
(***************************************************************************)

StatPlayers == 1..NumStatPlayers
NoKiller == 0

\* The username a player chose, as a number that compares like the string.
UsernameOf(uuid) == NumStatPlayers - uuid

\* ClientStatistics::new(uuid, username)
NewClientStatistics(uuid) ==
    [uuid |-> uuid, username |-> UsernameOf(uuid), kills |-> 0, deaths |-> 0,
     score |-> 0]

\* Ord::cmp of a sequence of field values: lexicographic.
RECURSIVE CmpTuple(_, _)
CmpTuple(x, y) ==
    IF x = <<>> THEN "Equal"
    ELSE IF Head(x) < Head(y) THEN "Less"
    ELSE IF Head(x) > Head(y) THEN "Greater"
    ELSE CmpTuple(Tail(x), Tail(y))

\* #[derive(Ord)] on ClientStatistics: the fields in declaration order.
OrdCmp(a, b) ==
    CmpTuple(<<a.uuid, a.username, a.kills, a.deaths, a.score>>,
             <<b.uuid, b.username, b.kills, b.deaths, b.score>>)

\* impl PartialOrd for ClientStatistics: partial_cmp.
PartialCmp(a, b) ==
    CmpTuple(<<a.kills, a.score, a.deaths, a.uuid>>,
             <<b.kills, b.score, b.deaths, b.uuid>>)

\* BTreeSet::remove that finds nothing.
BTreeRemoveNothing(set, e) == set

\* BTreeSet::remove(&e): the element that compares Equal to e goes.
BTreeRemove(set, e) ==
    SelectSeq(set, LAMBDA x : OrdCmp(x, e) # "Equal")

\* BTreeSet::insert(e): nothing happens when an element compares Equal,
\* otherwise e goes behind the elements that compare Less.
BTreeInsert(set, e) ==
    IF \E i \in 1..Len(set) : OrdCmp(set[i], e) = "Equal" THEN set
    ELSE SelectSeq(set, LAMBDA x : OrdCmp(x, e) = "Less") \o <<e>>
            \o SelectSeq(set, LAMBDA x : OrdCmp(x, e) = "Greater")

\* The inner loop of check_players_out_of_bounds over the snapshot: the
\* entry of the pawn that interacted last gets a kill and 100 points.
RECURSIVE CreditKiller(_, _, _)
CreditKiller(st, snapshot, killer) ==
    IF snapshot = <<>> THEN st
    ELSE LET client_stats == Head(snapshot)
             credited == [client_stats EXCEPT !.kills = @ + 1, !.score = @ + 100]
         IN  CreditKiller(
                 IF client_stats.uuid = killer
                 THEN [set |-> BTreeInsert(BTreeRemove(st.set, client_stats),
                                           credited),
                       modified |-> Append(st.modified, credited)]
                 ELSE st,
                 Tail(snapshot), killer)

\* The outer loop over the snapshot for one pawn that fell out of bounds.
RECURSIVE RecordDeath(_, _, _, _, _)
RecordDeath(st, rest, snapshot, victim, killer) ==
    IF rest = <<>> THEN st
    ELSE LET client == Head(rest)
             died == [client EXCEPT !.deaths = @ + 1]
             st1 == [set |-> BTreeInsert(BTreeRemove(st.set, client), died),
                     modified |-> Append(st.modified, died)]
             st2 == IF killer # NoKiller THEN CreditKiller(st1, snapshot, killer)
                    ELSE st1
         IN  RecordDeath(IF client.uuid = victim THEN st2 ELSE st,
                         Tail(rest), snapshot, victim, killer)

\* The accept loop gives the joining client a statistics entry and sends
\* it to all clients.
StatsJoin(uuid) ==
    /\ uuid \notin stats_joined
    /\ \A v \in StatPlayers : v < uuid => v \in stats_joined
    /\ Len(stats_channel) < MaxStatMsgs
    /\ server_stats_set' = BTreeInsert(server_stats_set, NewClientStatistics(uuid))
    /\ stats_channel' = Append(stats_channel, <<NewClientStatistics(uuid)>>)
    /\ stats_joined' = stats_joined \cup {uuid}
    /\ UNCHANGED <<client_stats_set, stats_seen, baseVars, notSt>>

\* check_players_out_of_bounds for one pawn below the map; killer is the
\* uuid in its LastInteractedPawn, which an attack of another pawn sets.
PlayerFalls(victim, killer) ==
    /\ victim \in stats_joined
    /\ killer \in (stats_joined \ {victim}) \cup {NoKiller}
    /\ Len(stats_channel) < MaxStatMsgs
    /\ \A i \in 1..Len(server_stats_set) :
          server_stats_set[i].uuid = victim =>
              server_stats_set[i].deaths < MaxDeaths
    /\ LET st == RecordDeath([set |-> server_stats_set, modified |-> <<>>],
                             server_stats_set, server_stats_set, victim, killer)
       IN  /\ server_stats_set' = st.set
           /\ stats_channel' = IF st.modified # <<>>
                               THEN Append(stats_channel, st.modified)
                               ELSE stats_channel
    /\ UNCHANGED <<client_stats_set, stats_joined, stats_seen, baseVars, notSt>>

\* handle_server_output, PlayersStatisticsChange: each updated entry takes
\* the place of the entry with its uuid, or is added.
RECURSIVE ApplyStatistics(_, _)
ApplyStatistics(set, updated_stat_entries) ==
    IF updated_stat_entries = <<>> THEN set
    ELSE LET updated_stat_entry == Head(updated_stat_entries)
             found == SelectSeq(set, LAMBDA x : x.uuid = updated_stat_entry.uuid)
         IN  ApplyStatistics(
                 IF found # <<>>
                 THEN BTreeInsert(BTreeRemove(set, Head(found)), updated_stat_entry)
                 ELSE BTreeInsert(set, updated_stat_entry),
                 Tail(updated_stat_entries))

ClientAppliesStatistics ==
    /\ stats_channel # <<>>
    /\ client_stats_set' = ApplyStatistics(client_stats_set, Head(stats_channel))
    /\ stats_channel' = Tail(stats_channel)
    /\ stats_seen' = stats_seen \cup
          {Head(stats_channel)[i].uuid : i \in 1..Len(Head(stats_channel))}
    /\ UNCHANGED <<server_stats_set, stats_joined, baseVars, notSt>>

NextStats ==
    \/ \E uuid \in StatPlayers : StatsJoin(uuid)
    \/ \E victim \in StatPlayers : \E killer \in StatPlayers \cup {NoKiller} :
          PlayerFalls(victim, killer)
    \/ ClientAppliesStatistics

SpecStats == Init /\ [][NextStats]_vars

\* The order the specification names: score, kills, deaths, uuid.
ScoreFirst(a, b) ==
    CmpTuple(<<a.score, a.kills, a.deaths, a.uuid>>,
             <<b.score, b.kills, b.deaths, b.uuid>>)

\* C28: the statistics set keeps its entries in the total order that
\* compares score first, then kills, then deaths, then uuid.
C28_StatisticsOrderedByScore ==
    /\ \A i, j \in 1..Len(server_stats_set) :
          i < j => ScoreFirst(server_stats_set[i], server_stats_set[j]) = "Less"
    /\ \A i, j \in 1..Len(client_stats_set) :
          i < j => ScoreFirst(client_stats_set[i], client_stats_set[j]) = "Less"

UuidsIn(set) == {set[i].uuid : i \in 1..Len(set)}
OnePerUuid(set) ==
    \A i, j \in 1..Len(set) : set[i].uuid = set[j].uuid => i = j

\* C29: after any joins, deaths and kills the server's statistics set holds
\* exactly one entry for every uuid that joined, and the client's copy holds
\* exactly one entry for every uuid in the requests it has applied.
C29_OneEntryPerUuid ==
    /\ UuidsIn(server_stats_set) = stats_joined
    /\ OnePerUuid(server_stats_set)
    /\ UuidsIn(client_stats_set) = stats_seen
    /\ OnePerUuid(client_stats_set)

\* A player has died twice and another has a kill, and the client has
\* applied the updates.
C29_Witness ==
    /\ \E i \in 1..Len(server_stats_set) : server_stats_set[i].deaths = 2
    /\ \E i \in 1..Len(server_stats_set) : server_stats_set[i].kills > 0
    /\ stats_channel = <<>>
    /\ client_stats_set = server_stats_set

(***************************************************************************)
(* The client's connection attempts and cancellation tokens                *)
(***************************************************************************)

\* The fields of the client's ApplicationCtx that the menus and systems
\* below leave alone.
clientRest == <<tick_count, udpToClient, server_tick_receiver, remote_receiver,
                players, has_voted, delivered, disconnected, lastProc>>

\* The "Play" button of the main menu.
UiPlay ==
    /\ ui_layer = "MainMenu"
    /\ ui_layer' = "GameMenu"
    /\ UNCHANGED <<cnVars, clientRest, netVars, voteVars, castVars, notCn>>

\* The "Back" button of the game menu.
UiBack ==
    /\ ui_layer = "GameMenu"
    /\ ui_layer' = "MainMenu"
    /\ UNCHANGED <<cnVars, clientRest, netVars, voteVars, castVars, notCn>>

\* The "Connect" button while client_connection is None: a background task
\* is spawned with a clone of the current token.
UiConnect ==
    /\ ui_layer = "GameMenu"
    /\ client_connection = NoConnection
    /\ attempts_started < MaxAttempts
    /\ attempts_started' = attempts_started + 1
    /\ connect_attempts' = connect_attempts \cup
          {[id |-> attempts_started + 1, token |-> cancellation_token,
            fresh |-> cancellation_token \notin cancelled_tokens]}
    /\ UNCHANGED <<cancellation_token, cancelled_tokens, connection_receiver,
                   client_connection, ui_layer, clientRest, netVars, voteVars,
                   castVars, notCn>>

\* The connecting task: connect_to_address returns, its background tasks
\* holding clones of the token it was given, and the result is sent to
\* connection_sender whatever it is.
ConnectFinishes(a, ok) ==
    /\ a \in connect_attempts
    /\ connect_attempts' = connect_attempts \ {a}
    /\ connection_receiver' =
          Append(connection_receiver,
                 [ok |-> ok, token |-> a.token, fresh |-> a.fresh])
    /\ UNCHANGED <<cancellation_token, cancelled_tokens, attempts_started,
                   client_connection, ui_layer, clientRest, netVars, voteVars,
                   castVars, notCn>>

\* handle_server_output without a connection: connection_receiver.try_recv();
\* a successful connection is adopted, a failed one shows a toast.
AdoptConnection ==
    /\ client_connection = NoConnection
    /\ connection_receiver # <<>>
    /\ connection_receiver' = Tail(connection_receiver)
    /\ client_connection' =
          IF Head(connection_receiver).ok
          THEN [token |-> Head(connection_receiver).token,
                fresh |-> Head(connection_receiver).fresh]
          ELSE NoConnection
    /\ UNCHANGED <<cancellation_token, cancelled_tokens, connect_attempts,
                   attempts_started, ui_layer, clientRest, netVars, voteVars,
                   castVars, notCn>>

\* handle_server_output with a connection whose control handler runs: the
\* game state the server sent arrives and the UI shows the game.
GameStateArrives ==
    /\ client_connection # NoConnection
    /\ client_connection.token \notin cancelled_tokens
    /\ ui_layer \in {"MainMenu", "GameMenu"}
    /\ ui_layer' = "Game"
    /\ UNCHANGED <<cnVars, clientRest, netVars, voteVars, castVars, notCn>>

\* handle_user_input: Escape opens the pause window; "Resume" closes it.
UiPause ==
    /\ ui_layer = "Game"
    /\ ui_layer' = "PauseWindow"
    /\ UNCHANGED <<cnVars, clientRest, netVars, voteVars, castVars, notCn>>

UiResume ==
    /\ ui_layer = "PauseWindow"
    /\ ui_layer' = "Game"
    /\ UNCHANGED <<cnVars, clientRest, netVars, voteVars, castVars, notCn>>

\* reset_connection_and_ui, called by "Quit Server" in the pause window and
\* by handle_user_input when try_send of the inputs fails.
ResetConnectionAndUi ==
    /\ \/ ui_layer = "PauseWindow"
       \/ ui_layer = "Game" /\ client_connection # NoConnection
    /\ cancellation_token < MaxTokens
    /\ cancelled_tokens' = cancelled_tokens \cup {cancellation_token}
    /\ client_connection' = NoConnection
    /\ ui_layer' = "MainMenu"
    /\ cancellation_token' = cancellation_token + 1
    /\ UNCHANGED <<connect_attempts, attempts_started, connection_receiver,
                   clientRest, netVars, voteVars, castVars, notCn>>

\* The client application after startup: ApplicationCtx::default().
InitConn ==
    /\ tick_count = 0
    /\ udpToClient = {}
    /\ server_tick_receiver = <<>>
    /\ remote_receiver = <<>>
    /\ players = [u \in Uuids |-> NoEntity]
    /\ ui_layer = "MainMenu"
    /\ has_voted = FALSE
    /\ delivered = [u \in Uuids |-> {}]
    /\ disconnected = {}
    /\ lastProc = [u \in Uuids |-> NoProc]
    /\ InitNet
    /\ InitVote
    /\ InitCast
    /\ InitIo

NextConn ==
    \/ UiPlay
    \/ UiBack
    \/ UiConnect
    \/ \E a \in connect_attempts : \E ok \in BOOLEAN : ConnectFinishes(a, ok)
    \/ AdoptConnection
    \/ GameStateArrives
    \/ UiPause
    \/ UiResume
    \/ ResetConnectionAndUi

SpecConn == InitConn /\ [][NextConn]_vars

\* C27: every connection attempt is started with a token that has not been
\* cancelled, and the connection the client has adopted is never one whose
\* tasks hold a token that has been cancelled.
C27_NoConnectionOnCancelledToken ==
    /\ \A a \in connect_attempts : a.fresh
    /\ \A i \in 1..Len(connection_receiver) : connection_receiver[i].fresh
    /\ client_connection.fresh
    /\ client_connection # NoConnection =>
          client_connection.token \notin cancelled_tokens

(***************************************************************************)
(* Background tasks and cancellation                                       *)
(***************************************************************************)

\* The token a task was spawned with.
TokenOf(t) == IF t \in ClientTasks THEN "client" ELSE "server"

\* The tasks that read length-prefixed frames from a TCP stream.
FrameReaders == {"control_handler", "control_reader"}

\* The tasks whose select! receives something and forwards it without
\* waiting for the peer: datagrams into a channel (the listeners), inputs
\* and requests from a channel to the socket (input sender, control handler).
Forwarders == {"control_handler", "input_sender", "tick_listener", "udp_listener"}

\* cancellation_token.cancel(): reset_connection_and_ui on the client, the
\* shutdown of the server instance on the server.
CancelToken(side) ==
    /\ ~token_cancelled[side]
    /\ token_cancelled' = [token_cancelled EXCEPT ![side] = TRUE]
    /\ UNCHANGED <<bg, baseVars, notBg>>

\* A task waiting in select! whose token is cancelled takes the cancelled()
\* branch and breaks out of its loop (the input sender sends Exit first).
TaskExits(t) ==
    /\ bg[t] = "select"
    /\ token_cancelled[TokenOf(t)]
    /\ bg' = [bg EXCEPT ![t] = "exited"]
    /\ UNCHANGED <<token_cancelled, baseVars, notBg>>

\* select! completes a receive branch: the body starts.
TaskReceives(t) ==
    /\ t \in Forwarders
    /\ bg[t] = "select"
    /\ bg' = [bg EXCEPT ![t] = "forward"]
    /\ UNCHANGED <<token_cancelled, baseVars, notBg>>

\* The body forwards what it received and the loop is back at select!.
TaskForwards(t) ==
    /\ bg[t] = "forward"
    /\ bg' = [bg EXCEPT ![t] = "select"]
    /\ UNCHANGED <<token_cancelled, baseVars, notBg>>

\* The peer's four header bytes are there: read_u32 completes and the body
\* awaits read_exact(&mut buf), outside of any select!.
HeaderArrives(t) ==
    /\ t \in FrameReaders
    /\ bg[t] = "select"
    /\ bg' = [bg EXCEPT ![t] = "read_exact"]
    /\ UNCHANGED <<token_cancelled, baseVars, notBg>>

\* The peer sends the payload: read_exact returns, the request is decoded
\* and handed on, and the loop is back at select!.
PayloadArrives(t) ==
    /\ bg[t] = "read_exact"
    /\ bg' = [bg EXCEPT ![t] = "select"]
    /\ UNCHANGED <<token_cancelled, baseVars, notBg>>

\* A client connects: accept() completes and the accept loop's body awaits
\* the client's metadata in exchange_metadata, outside of any select!.
ConnectionArrives ==
    /\ bg["accept_loop"] = "select"
    /\ bg' = [bg EXCEPT !["accept_loop"] = "exchange_metadata"]
    /\ UNCHANGED <<token_cancelled, baseVars, notBg>>

\* The client's metadata arrives: the body runs to its end (game state,
\* pawn, registry, statistics, reader task) and the loop is back at select!.
MetadataArrives ==
    /\ bg["accept_loop"] = "exchange_metadata"
    /\ bg' = [bg EXCEPT !["accept_loop"] = "select"]
    /\ UNCHANGED <<token_cancelled, baseVars, notBg>>

NextCancel ==
    \/ \E side \in {"client", "server"} : CancelToken(side)
    \/ \E t \in BgTasks : TaskExits(t)
    \/ \E t \in BgTasks : TaskReceives(t)
    \/ \E t \in BgTasks : TaskForwards(t)
    \/ \E t \in BgTasks : HeaderArrives(t)
    \/ \E t \in BgTasks : PayloadArrives(t)
    \/ ConnectionArrives
    \/ MetadataArrives

\* The runtime runs every task that can run: a body that does not wait for
\* the peer finishes, and a task that is at select! again and again with its
\* token cancelled takes the cancelled() branch at some point (select! picks
\* among the ready branches at random).  What the peer does is up to it.
SpecCancel ==
    /\ Init
    /\ [][NextCancel]_vars
    /\ \A t \in BgTasks : WF_vars(TaskForwards(t)) /\ SF_vars(TaskExits(t))

\* C26: once a token is cancelled, every background task spawned with it
\* eventually exits, whatever it was doing and whatever the peer sends or
\* withholds.
C26_CancelledTasksExit ==
    \A t \in BgTasks : token_cancelled[TokenOf(t)] ~> bg[t] = "exited"

(***************************************************************************)
(* Datagram sizes.  Every UDP sender serialises its message with           *)
(* rmp_serde::to_vec, prepends the 4-byte big-endian length and hands the  *)
(* whole buffer to the socket: send_tick (server systems.rs 226-265) with  *)
(* send_to once per registry entry, notify_valid_clients_map_change        *)
(* (server ui.rs 250-283) likewise, and send_game_action (client.rs        *)
(* 228-242) with send.  UDP_DATAGRAM_SIZE (mod.rs 234) sizes the receive   *)
(* buffers of the two listeners and is read by no sender.  The input of    *)
(* each action is message_bytes.len(), the length of the serialised        *)
(* message, which grows with the Vec the message carries (the inputs of a  *)
(* batch, the effects of a pawn).                                          *)
(***************************************************************************)
UDP_DATAGRAM_SIZE == 65536

MessageLens == {1, 16, 256, 4096, 65532, 65533, 65536, 100000}

\* (message_bytes.len() as u32).to_be_bytes() followed by message_bytes
FramedSize(len) == 4 + len

\* send.send(&message_header) of the client input sender
SendGameAction(len) ==
    /\ udp_sent < MaxDatagrams
    /\ udp_last' = [by |-> "send_game_action", size |-> FramedSize(len)]
    /\ udp_sent' = udp_sent + 1
    /\ UNCHANGED <<baseVars, notDg>>

\* udp_socket.send_to(&message_length_bytes, addr) of send_tick
SendTickDatagram(len) ==
    /\ udp_sent < MaxDatagrams
    /\ udp_last' = [by |-> "send_tick", size |-> FramedSize(len)]
    /\ udp_sent' = udp_sent + 1
    /\ UNCHANGED <<baseVars, notDg>>

\* socket.send_to(&message_length_bytes, addr) of the map-object update
NotifyMapChange(len) ==
    /\ udp_sent < MaxDatagrams
    /\ udp_last' = [by |-> "map_object", size |-> FramedSize(len)]
    /\ udp_sent' = udp_sent + 1
    /\ UNCHANGED <<baseVars, notDg>>

NextSize ==
    \/ \E len \in MessageLens : SendGameAction(len)
    \/ \E len \in MessageLens : SendTickDatagram(len)
    \/ \E len \in MessageLens : NotifyMapChange(len)

SpecSize == Init /\ [][NextSize]_vars

DuplicateExitQueued ==
    /\ Len(client_udp_receiver) >= 2
    /\ \E a \in Clients :
          /\ registry[a] # NoSession
          /\ \A i \in 1..Len(client_udp_receiver) :
                /\ client_udp_receiver[i].addr = a
                /\ client_udp_receiver[i].id = registry[a]
                /\ client_udp_receiver[i].inputs = <<"Exit">>

\* C32: when two datagrams carrying Exit from the same client have both been
\* accepted by the UDP listener and recv_tick processes them, recv_tick
\* completes normally: the first removes the session, the second leaves the
\* registry as the first left it, and the server does not fail.
C32_DuplicateExitTolerated ==
    [][(DuplicateExitQueued /\ client_udp_receiver' = <<>>)
          => ~panicked']_vars

(***************************************************************************)
(* Whose pawn a datagram acts on                                           *)
(***************************************************************************)
\* The uuids of the sessions whose address a queued request is tagged with.
SendingSessions ==
    {registry[client_udp_receiver[i].addr] :
        i \in 1..Len(client_udp_receiver)}

\* C33: the inputs of an accepted datagram are applied only to the pawn of
\* the sending endpoint's session: a run of recv_tick changes or despawns
\* no pawn other than those of the sessions the queued requests came from.
C33_InputsReachOnlyOwnPawn ==
    [][(client_udp_receiver # <<>> /\ client_udp_receiver' = <<>>)
          => \A u \in ServerUuids :
                pawns'[u] # pawns[u] => u \in SendingSessions]_vars

(***************************************************************************)
(* The vote total and the per-map counts                                   *)
(***************************************************************************)
\* selectable_maps.iter().map(|e| e.1).sum()
RECURSIVE SumOfVotes(_)
SumOfVotes(selectable_maps) ==
    IF selectable_maps = <<>> THEN 0
    ELSE Head(selectable_maps).votes + SumOfVotes(Tail(selectable_maps))

\* C34: in every reachable Intermission state intermission_total_votes
\* equals the sum of the vote counts of the selectable_maps entries, also
\* after the operator's "Set intermission state" and after the round timer
\* finishes during an intermission.
C34_TotalIsSumOfVotes ==
    game_state.kind = "Intermission"
        => intermission_total_votes = SumOfVotes(game_state.selectable_maps)

(***************************************************************************)
(* Replies to control requests.  The accept loop (server.rs 152-203) keys  *)
(* the registry entry of a client by                                       *)
(* SocketAddr::new(socket_addr.ip(), client_metadata.game_socket_port),    *)
(* the client's UDP address, and its control reader tags every request     *)
(* with socket_addr, the peer address of the TCP connection.  The reply    *)
(* arms of frame (systems.rs 561-609, 640-671) look the writer up with     *)
(* connected_client_tcp_handles.get(&socket_addr).  A client's uuid is its *)
(* index here; the two sockets of a client get their ports from the OS     *)
(* ("[::]:0"), TCP and UDP port numbers being independent of each other.   *)
(***************************************************************************)
ReplyRequests == {"Vote", "RTTMeasurement", "ClientPawnSync"}

\* accept + handshake of client c connecting from ip with the given ports:
\* no two TCP connections from one host share a port, nor do two UDP
\* sockets bound on one host.
ReplyJoin(c, ip, tcp_port, game_socket_port) ==
    /\ peers[c] = NoPeer
    /\ \A d \in Clients :
          peers[d].ip = ip => /\ peers[d].tcp_port # tcp_port
                              /\ peers[d].game_socket_port # game_socket_port
    /\ peers' = [peers EXCEPT ![c] = [ip |-> ip, tcp_port |-> tcp_port,
                                      game_socket_port |-> game_socket_port]]
    /\ handles' = [handles EXCEPT ![<<ip, game_socket_port>>] = c]
    /\ UNCHANGED <<tagged_requests, reply_tasks, reply_last, baseVars, notRp>>

\* The control reader of client c: tcp_sender.send((message, socket_addr))
TagRequest(c, request) ==
    /\ peers[c] # NoPeer
    /\ Len(tagged_requests) < MaxTagged
    /\ tagged_requests' =
          Append(tagged_requests,
                 [request |-> request, uuid |-> c,
                  socket_addr |-> <<peers[c].ip, peers[c].tcp_port>>])
    /\ UNCHANGED <<peers, handles, reply_tasks, reply_last, baseVars, notRp>>

\* frame takes a request from the channel and its arm spawns the reply
\* task, which captures socket_addr (for a Vote: the OngoingGame arm).
SpawnReply ==
    /\ tagged_requests # <<>>
    /\ Cardinality(reply_tasks) < MaxReplyTasks
    /\ reply_tasks' = reply_tasks \cup {Head(tagged_requests)}
    /\ tagged_requests' = Tail(tagged_requests)
    /\ UNCHANGED <<peers, handles, reply_last, baseVars, notRp>>

\* connected_client_tcp_handles.get(&socket_addr): the uuid of the entry
\* whose writer the task gets, NoSession for None.
HandleFor(t) == handles[t.socket_addr]

\* The reply task: if let Some(handle) = ..get(&socket_addr) then the reply
\* is written to that handle's stream, otherwise nothing is written.
ReplyTaskRuns(t) ==
    /\ t \in reply_tasks
    /\ reply_tasks' = reply_tasks \ {t}
    /\ reply_last' = [ran |-> TRUE, request |-> t.request, from |-> t.uuid,
                      to |-> HandleFor(t)]
    /\ UNCHANGED <<peers, handles, tagged_requests, baseVars, notRp>>

NextReply ==
    \/ \E c \in Clients : \E ip \in Ips : \E tp \in Ports : \E gp \in Ports :
          ReplyJoin(c, ip, tp, gp)
    \/ \E c \in Clients : \E request \in ReplyRequests : TagRequest(c, request)
    \/ SpawnReply
    \/ \E t \in reply_tasks : ReplyTaskRuns(t)

SpecReply == Init /\ [][NextReply]_vars

\* C35: a reply to a client's control request (the resync for a Vote during
\* OngoingGame, the RTTMeasurement echo, the ClientPawnSync data) is written
\* to the control channel of the client that sent the request and to no
\* other client.
C35_ReplyGoesToSender == reply_last.ran => reply_last.to = reply_last.from

(***************************************************************************)
(* Handling of control requests in every game state                        *)
(***************************************************************************)
\* C36: the frame loop dequeues and handles a pending control request in
\* every game state, whether or not an intermission countdown is in
\* progress: every run of frame that finds a request in client_tcp_receiver
\* takes the first one off the channel.
C36_FrameHandlesRequestsInEveryState ==
    [][(frameLog'.ran /\ client_tcp_receiver # <<>>)
          => /\ client_tcp_receiver' = Tail(client_tcp_receiver)
             /\ frameLog'.handled = Head(client_tcp_receiver)]_vars

(***************************************************************************)
(* Pawn ticks that arrive after the PlayerDisconnect of their pawn.  The   *)
(* server sends ticks only for pawns it still has: recv_tick despawns the  *)
(* pawn of an exiting client and spawns the PlayerDisconnect broadcast     *)
(* (systems.rs 105-124), after which send_tick (systems.rs 203-267) no     *)
(* longer finds the pawn.  Datagrams sent before stay in flight.           *)
(***************************************************************************)
\* send_tick for pawns whose PlayerDisconnect has not been announced.
SendTickOfLivePawns(moved, payload) ==
    /\ moved \cap notices = {}
    /\ SendTick(moved, payload)

\* notify_players_player_disconnect writes PlayerDisconnect(u) to the
\* client's control stream and the client's control reader pushes it into
\* remote_receiver.
PlayerDisconnectArrives(u) ==
    /\ u \notin notices
    /\ Len(remote_receiver) < MaxRemoteChan
    /\ notices' = notices \cup {u}
    /\ remote_receiver' = Append(remote_receiver, PlayerDisconnect(u))
    /\ UNCHANGED <<ioVars, tick_count, udpToClient, server_tick_receiver,
                   players, ui_layer, has_voted, delivered, disconnected,
                   lastProc, netVars, voteVars, casts, broken, last_state,
                   castLog, stalled, removed>>

\* The moved pawns all report the same Transform, Velocity and Pawn here.
LatePayload == [position |-> "p1", velocity |-> DefaultVelocity,
                direction |-> "Right"]

NextLate ==
    \/ \E moved \in SUBSET Uuids :
          SendTickOfLivePawns(moved, [u \in moved |-> LatePayload])
    \/ \E t \in udpToClient : ClientTickListener(t)
    \/ \E u \in Uuids : PlayerDisconnectArrives(u)
    \/ HandleServerOutput

SpecLate == Init /\ [][NextLate]_vars

\* C37: once the client has processed PlayerDisconnect(u) it holds no shadow
\* entity for uuid u from then on, even if pawn ticks for u sent before the
\* disconnect are delivered on the tick channel afterwards.
C37_NoShadowAfterDisconnect ==
    \A u \in disconnected : ~players[u].present

(***************************************************************************)
(* A join next to a game-state change                                      *)
(***************************************************************************)
\* Some state broadcast that has ended wrote to the session of client c.
ReachedByStateBroadcast(c) ==
    \E r \in castLog : CarriesState(r.task) /\ registry[c] \in r.written

\* C38: every game-state change the server makes after it read the state
\* for a client's join-time push is also delivered to that client: once the
\* broadcasts have finished, a client whose handshake succeeded and to whom
\* no state broadcast was written is on the server's game state, the one
\* its handshake sent.
C38_JoinerMissesNoStateChange ==
    StateBroadcastsDone =>
        \A c \in Clients :
            (/\ registry[c] # NoSession
             /\ hsLog[c].sent # "none"
             /\ hsLog[c].first = hsLog[c].sent
             /\ ~ReachedByStateBroadcast(c))
                => hsLog[c].sent = StateOf(game_state)

(***************************************************************************)
(* The client's input sender.  setup_server_sender (client.rs 109-131)     *)
(* loops over select! { cancelled() => { send [Exit]; break },             *)
(* Some(batch) = receiver.recv() => send batch }.  select! takes any       *)
(* branch that is ready; recv() of a closed, empty channel yields None,    *)
(* which does not match, so only cancelled() is then waited for.  The UI   *)
(* (client systems.rs 304-340) queues batches of movement and attack       *)
(* inputs; reset_connection_and_ui (349-357) cancels the token and drops   *)
(* the connection and with it the channel's Sender.                        *)
(***************************************************************************)
\* Batches handle_user_input builds: pressed keys, then just-pressed keys.
InputBatches == {<<"MoveLeft">>, <<"MoveRight", "Attack">>}

\* RemoteClientGameRequest { id, inputs } as send_game_action sends it.
RemoteClientGameRequest(id, inputs) == [id |-> id, inputs |-> inputs]

\* connect_to_address spawned the task with the uuid the server assigned.
InitSender ==
    /\ InitBase
    /\ InitBgVars /\ InitWireVars /\ InitFrmVars /\ InitRxVars /\ InitLsVars
    /\ InitStVars /\ InitCnVars /\ InitDgVars /\ InitRpVars /\ InitVtVars
    /\ input_channel = <<>>
    /\ input_closed = FALSE
    /\ sender_token \in BOOLEAN
    /\ sender_uuid \in Clients
    /\ sender = [pc |-> "select", batch |-> NoBatch]
    /\ socket_sent = <<>>
    /\ batches_queued = 0

\* handle_user_input: server_input_sender.try_send(game_inputs)
UiQueuesInputs(batch) ==
    /\ ~input_closed
    /\ Len(input_channel) < MaxInputChan
    /\ batches_queued < MaxBatches
    /\ input_channel' = Append(input_channel, batch)
    /\ batches_queued' = batches_queued + 1
    /\ UNCHANGED <<input_closed, sender_token, sender_uuid, sender,
                   socket_sent, baseVars, notSd>>

\* cancellation_token.cancel()
SenderTokenCancelled ==
    /\ ~sender_token
    /\ sender_token' = TRUE
    /\ UNCHANGED <<input_channel, input_closed, sender_uuid, sender,
                   socket_sent, batches_queued, baseVars, notSd>>

\* client_connection = None: the ClientConnection and its Sender are dropped.
InputSenderDropped ==
    /\ ~input_closed
    /\ input_closed' = TRUE
    /\ UNCHANGED <<input_channel, sender_token, sender_uuid, sender,
                   socket_sent, batches_queued, baseVars, notSd>>

\* select! completes with Some(game_input) = receiver.recv()
SenderTakesBatch ==
    /\ sender.pc = "select"
    /\ input_channel # <<>>
    /\ sender' = [pc |-> "send", batch |-> Head(input_channel)]
    /\ input_channel' = Tail(input_channel)
    /\ UNCHANGED <<input_closed, sender_token, sender_uuid, socket_sent,
                   batches_queued, baseVars, notSd>>

\* send_game_action(udp_socket, game_input, client_uuid) of the recv branch
SenderSendsBatch ==
    /\ sender.pc = "send"
    /\ socket_sent' = Append(socket_sent,
                             RemoteClientGameRequest(sender_uuid, sender.batch))
    /\ sender' = [pc |-> "select", batch |-> NoBatch]
    /\ UNCHANGED <<input_channel, input_closed, sender_token, sender_uuid,
                   batches_queued, baseVars, notSd>>

\* select! completes with cancellation_token.cancelled()
SenderTakesCancelled ==
    /\ sender.pc = "select"
    /\ sender_token
    /\ sender' = [pc |-> "send_exit", batch |-> <<"Exit">>]
    /\ UNCHANGED <<input_channel, input_closed, sender_token, sender_uuid,
                   socket_sent, batches_queued, baseVars, notSd>>

\* Mutant of AfterExit: the cancelled branch goes round the loop again.
AfterExitLoops == "select"

\* `break` after the Exit datagram: the task ends.
AfterExit == "exited"

\* send_game_action(udp_socket, vec![GameInput::Exit], client_uuid); break
SenderSendsExit ==
    /\ sender.pc = "send_exit"
    /\ Len(socket_sent) <= MaxBatches + 1
    /\ socket_sent' = Append(socket_sent,
                             RemoteClientGameRequest(sender_uuid, sender.batch))
    /\ sender' = [pc |-> AfterExit, batch |-> NoBatch]
    /\ UNCHANGED <<input_channel, input_closed, sender_token, sender_uuid,
                   batches_queued, baseVars, notSd>>

NextSender ==
    \/ \E batch \in InputBatches : UiQueuesInputs(batch)
    \/ SenderTokenCancelled
    \/ InputSenderDropped
    \/ SenderTakesBatch
    \/ SenderSendsBatch
    \/ SenderTakesCancelled
    \/ SenderSendsExit

\* The runtime keeps running the task; of the ready branches of a select!
\* none is passed over forever.
SpecSender ==
    /\ InitSender
    /\ [][NextSender]_vars
    /\ WF_vars(SenderSendsBatch)
    /\ WF_vars(SenderSendsExit)
    /\ SF_vars(SenderTakesCancelled)

ExitDatagrams ==
    {i \in 1..Len(socket_sent) : "Exit" \in
        {socket_sent[i].inputs[j] : j \in 1..Len(socket_sent[i].inputs)}}

VoteEnabledAlways(voted) == TRUE

\* ui.add_enabled_ui(!app_ctx.has_voted, ..)
VoteEnabled(voted) == ~voted

\* The user clicks the "Vote" button of a map.
ClickVote(map) ==
    /\ ui_layer = "Intermission"
    /\ VoteEnabled(has_voted)
    /\ Len(remote_server_sender) < MaxVoteChan
    /\ remote_server_sender' = Append(remote_server_sender, map)
    /\ has_voted' = TRUE
    /\ UNCHANGED <<tick_count, udpToClient, server_tick_receiver,
                   remote_receiver, players, ui_layer, delivered,
                   disconnected, lastProc, netVars, voteVars, castVars,
                   notVt>>

\* setup_server_handler takes a queued request and writes it to the stream.
ControlHandlerSends ==
    /\ remote_server_sender # <<>>
    /\ remote_server_sender' = Tail(remote_server_sender)
    /\ UNCHANGED <<baseVars, notVt>>

NextBallot ==
    \/ \E req \in RemoteRequests : ClientControlReader(req)
    \/ HandleServerOutput
    \/ \E map \in {MapNameVariants[i] : i \in 1..Len(MapNameVariants)} :
          ClickVote(map)
    \/ ControlHandlerSends

SpecBallot == Init /\ [][NextBallot]_vars

\* The step handles a ServerGameStateControl(Intermission) message.
HandlesIntermission ==
    /\ remote_receiver # <<>>
    /\ Head(remote_receiver) = ServerGameStateControl("Intermission")
    /\ remote_receiver' = Tail(remote_receiver)

\* C40: between two consecutive ServerGameStateControl(Intermission)
\* messages a client enqueues at most one Vote: a Vote is enqueued only by
\* a step that takes has_voted from FALSE to TRUE, one Vote per step, and
\* has_voted goes back to FALSE only in a step that handles an Intermission
\* state.
C40_OneVotePerIntermission ==
    [][/\ Len(remote_server_sender') > Len(remote_server_sender)
            => /\ ~has_voted /\ has_voted'
               /\ Len(remote_server_sender') = Len(remote_server_sender) + 1
       /\ (has_voted /\ ~has_voted') => HandlesIntermission
       /\ (~has_voted /\ has_voted')
            => Len(remote_server_sender') > Len(remote_server_sender)
      ]_vars

\* Witness of C40: the client voted, a new Intermission state re-enabled
\* the button and it voted again: two Votes are queued.
C40_Witness ==
    /\ has_voted
    /\ Len(remote_server_sender) = 2
    /\ ui_layer = "Intermission"

====
